---- MODULE Spec2Model ----
(***************************************************************************)
(* Field state machine of the Columns game: the grid (src/src/model.rs),   *)
(* the per-tick driver and the key handlers (src/src/main.rs).             *)
(*                                                                         *)
(* The grid is the array `blocks`, indexed y * FIELD_WIDTH_BLOCKS + x.     *)
(* A cell is a record [color, state, counter, sequence]; FieldBlock::      *)
(* Background is the record Background, a Block in state Disappearing      *)
(* carries its counter and the coordinates of its run, every other block   *)
(* carries counter 0 and the empty sequence.                               *)
(***************************************************************************)
EXTENDS Integers, Sequences, FiniteSets, TLC

VARIABLES field, game_state, score, color_stats, block_fall_counter, block_fall_limit,
          \* a coordinate iterator (FieldCoords) and what it has yielded so far
          fc, yielded,
          \* the last call of the sequence detector and what it returned
          found

vars == <<field, game_state, score, color_stats, block_fall_counter, block_fall_limit,
          fc, yielded, found>>

(***************************************************************************)
(* Bounds of the model.  The grid, the palette and the two tick intervals  *)
(* are scaled down from main.rs (6 x 18 cells, 6 colours, 32 ticks).       *)
(***************************************************************************)
FIELD_WIDTH_BLOCKS == 3

FIELD_HEIGHT_BLOCKS == 4

BLOCK_COLOR_COUNT == 2

DISAPPEAR_BLINK_COUNT == 2

DEFAULT_BLOCK_FALL_LIMIT == 2

\* triplets spawned since the last restart (sum of color_stats / 3)
MaxSpawns == 1

\* blocks on a field the mid-game specification starts from
MaxBlocks == 6

\* settled blocks on a field a new descending block is made on
MaxObstacles == 2

(***************************************************************************)
(* Program constants.                                                      *)
(***************************************************************************)
MINIMUM_SEQUENCE == 3

SCORE_SPEEDUP_DIVISOR == 4

FIELD_BLOCK_COUNT == FIELD_WIDTH_BLOCKS * FIELD_HEIGHT_BLOCKS

NEW_BLOCK_COLUMN == FIELD_WIDTH_BLOCKS \div 2

Colors == 0 .. (BLOCK_COLOR_COUNT - 1)

Indices == 0 .. (FIELD_BLOCK_COUNT - 1)

\* the element of a singleton set: Only({e(v) : v \in {d}}) evaluates d once
Only(S) == CHOOSE r \in S : TRUE

(***************************************************************************)
(* model.rs: FieldBlock, Block, BlockState                                 *)
(***************************************************************************)
Background == [color |-> -1, state |-> "Background", counter |-> 0, sequence |-> <<>>]

Block(c, st) == [color |-> c, state |-> st, counter |-> 0, sequence |-> <<>>]

Disappearing(c, n, seq) == [color |-> c, state |-> "Disappearing", counter |-> n, sequence |-> seq]

is_stationary(b) == b.state = "Stationary"

is_descending(b) == b.state = "Descending"

is_pulled_by_gravity(b) == b.state = "Gravity"

is_disappearing(b) == b.state = "Disappearing"

is_background(b) == b.state = "Background"

as_block(b) == b.state # "Background"

\* FieldBlock::is_stationary_block: Stationary or Disappearing
is_stationary_block(b) == b.state \in {"Stationary", "Disappearing"}

(***************************************************************************)
(* model.rs: Field                                                         *)
(***************************************************************************)
FieldNew == [i \in Indices |-> Background]

Idx(x, y) == y * FIELD_WIDTH_BLOCKS + x

block_by_coord(f, x, y) == f[Idx(x, y)]

coords_for_index(i) == <<i % FIELD_WIDTH_BLOCKS, i \div FIELD_WIDTH_BLOCKS>>

\* block_coords_with_predicate without the rev(): first index first
block_coords_in_row_major_order(f, pred) ==
    SelectSeq([k \in 1 .. FIELD_BLOCK_COUNT |-> coords_for_index(k - 1)],
              LAMBDA c : as_block(block_by_coord(f, c[1], c[2]))
                         /\ block_by_coord(f, c[1], c[2]).state \in pred)

\* the coordinates of the blocks whose state satisfies the predicate, last index
\* first; a predicate on BlockState is the set of the states it accepts
block_coords_with_predicate(f, pred) ==
    SelectSeq([k \in 1 .. FIELD_BLOCK_COUNT |-> coords_for_index(FIELD_BLOCK_COUNT - k)],
              LAMBDA c : as_block(block_by_coord(f, c[1], c[2]))
                         /\ block_by_coord(f, c[1], c[2]).state \in pred)

block_at_coord_hit_bottom_or_stationary_block(f, x, y) ==
    \/ y = FIELD_HEIGHT_BLOCKS - 1
    \/ is_stationary_block(block_by_coord(f, x, y + 1))

(***************************************************************************)
(* model.rs: FieldCoords, the double-ended iterator over the coordinates   *)
(* of a grid.  An Option<(u32, u32)> is a sequence of length 0 or 1.       *)
(***************************************************************************)
FieldCoordsNew ==
    [index |-> 0, length |-> FIELD_BLOCK_COUNT, field_width |-> FIELD_WIDTH_BLOCKS]

\* nothing yielded yet; cells is the length the iterator started with
NothingYielded == [front |-> <<>>, back |-> <<>>, last |-> <<>>, cells |-> FIELD_BLOCK_COUNT]

FieldCoords_coords_for_index(it, index) ==
    <<index % it.field_width, index \div it.field_width>>

FieldCoords_next(it) ==
    IF it.index >= it.length
    THEN [it |-> it, item |-> <<>>]
    ELSE [it |-> [it EXCEPT !.index = @ + 1],
          item |-> <<FieldCoords_coords_for_index(it, it.index)>>]

\* next_back that reads the coordinates before it shortens the range
FieldCoords_next_back_reads_first(it) ==
    IF it.index >= it.length
    THEN [it |-> it, item |-> <<>>]
    ELSE [it |-> [it EXCEPT !.length = @ - 1],
          item |-> <<FieldCoords_coords_for_index(it, it.length)>>]

FieldCoords_next_back(it) ==
    IF it.index >= it.length
    THEN [it |-> it, item |-> <<>>]
    ELSE [it |-> [it EXCEPT !.length = @ - 1],
          item |-> <<FieldCoords_coords_for_index(it, it.length - 1)>>]

(***************************************************************************)
(* model.rs: sequence detection.  An Option<(u32, u32)> is a sequence of   *)
(* at most one coordinate: <<>> is None.                                   *)
(***************************************************************************)
sequence_continues(f, x, y, dx, dy) ==
    IF ~ as_block(block_by_coord(f, x, y)) THEN <<>>
    ELSE LET next_x == x + dx
             next_y == y + dy
         IN IF next_x < 0 THEN <<>>
            ELSE IF next_x >= FIELD_WIDTH_BLOCKS THEN <<>>
            ELSE IF next_y < 0 THEN <<>>
            ELSE IF next_y >= FIELD_HEIGHT_BLOCKS THEN <<>>
            ELSE IF ~ as_block(block_by_coord(f, next_x, next_y)) THEN <<>>
            ELSE IF block_by_coord(f, x, y).color = block_by_coord(f, next_x, next_y).color
                 THEN << <<next_x, next_y>> >>
                 ELSE <<>>

Sequence(coordinates, extensible) == [coordinates |-> coordinates, extensible |-> extensible]

\* no call of the detector yet
NothingFound == [call |-> <<>>, sequences |-> <<>>]

\* the loop of find_sequence: push the next coordinate while the sequence continues
RECURSIVE find_sequence_loop(_, _, _, _)
find_sequence_loop(f, coords, dx, dy) ==
    LET last == coords[Len(coords)]
        next == sequence_continues(f, last[1], last[2], dx, dy)
    IN IF next # <<>> THEN find_sequence_loop(f, Append(coords, next[1]), dx, dy)
       ELSE coords

InField(x, y) == x >= 0 /\ x < FIELD_WIDTH_BLOCKS /\ y >= 0 /\ y < FIELD_HEIGHT_BLOCKS

\* find_sequence that looks for room behind the last block only
find_sequence_room_at_end(f, x, y, dx, dy) ==
    IF ~ as_block(block_by_coord(f, x, y)) THEN Sequence(<<>>, TRUE)
    ELSE LET coords == find_sequence_loop(f, << <<x, y>> >>, dx, dy)
             last == coords[Len(coords)]
             more_x == last[1] + dx
             more_y == last[2] + dy
         IN Sequence(coords, InField(more_x, more_y)
                             /\ is_background(block_by_coord(f, more_x, more_y)))

find_sequence(f, x, y, dx, dy) ==
    IF ~ as_block(block_by_coord(f, x, y)) THEN Sequence(<<>>, TRUE)
    ELSE LET coords == find_sequence_loop(f, << <<x, y>> >>, dx, dy)
             last == coords[Len(coords)]
             first == coords[1]
             more_x == last[1] + dx
             more_y == last[2] + dy
             less_x == first[1] - dx
             less_y == first[2] - dy
             at_end == InField(more_x, more_y) /\ is_background(block_by_coord(f, more_x, more_y))
             at_begin == InField(less_x, less_y) /\ is_background(block_by_coord(f, less_x, less_y))
         IN Sequence(coords, at_end \/ at_begin)

\* sequences_from without the look in the opposite direction
sequences_from_any_block(f, x, y) ==
    <<find_sequence(f, x, y, 1, 0), find_sequence(f, x, y, 1, 1),
      find_sequence(f, x, y, 0, 1), find_sequence(f, x, y, -1, 1)>>

\* the up to four sequences that start at the settled block (x, y)
sequences_from(f, x, y) ==
    (IF sequence_continues(f, x, y, -1, 0) = <<>> THEN <<find_sequence(f, x, y, 1, 0)>> ELSE <<>>)
    \o (IF sequence_continues(f, x, y, -1, -1) = <<>> THEN <<find_sequence(f, x, y, 1, 1)>> ELSE <<>>)
    \o (IF sequence_continues(f, x, y, 0, -1) = <<>> THEN <<find_sequence(f, x, y, 0, 1)>> ELSE <<>>)
    \o (IF sequence_continues(f, x, y, 1, -1) = <<>> THEN <<find_sequence(f, x, y, -1, 1)>> ELSE <<>>)

\* get_coordinates_of_sequences with the predicate |seq| seq.coordinates.len() >= min_len
get_coordinates_of_sequences(f, min_len) ==
    LET predicate(seq) == Len(seq.coordinates) >= min_len
    IN Only({LET sequences[k \in 0 .. Len(settled_blocks)] ==
                     IF k = 0 THEN <<>>
                     ELSE SelectSeq(sequences[k - 1]
                                    \o sequences_from(f, settled_blocks[k][1], settled_blocks[k][2]),
                                    predicate)
             IN sequences[Len(settled_blocks)]
             : settled_blocks \in {block_coords_with_predicate(f, {"Stationary"})}})

(***************************************************************************)
(* main.rs: the steps of the tick                                          *)
(***************************************************************************)
\* drop_or_settle that settles on the floor only
drop_or_settle_on_floor(f, x, y) ==
    IF y = FIELD_HEIGHT_BLOCKS - 1
    THEN [f EXCEPT ![Idx(x, y)] = Block(@.color, "Stationary")]
    ELSE [f EXCEPT ![Idx(x, y + 1)] = f[Idx(x, y)], ![Idx(x, y)] = Background]

\* drop_or_settle that does not clear the cell the block leaves
drop_or_settle_leaves_a_copy(f, x, y) ==
    IF block_at_coord_hit_bottom_or_stationary_block(f, x, y)
    THEN [f EXCEPT ![Idx(x, y)] = Block(@.color, "Stationary")]
    ELSE [f EXCEPT ![Idx(x, y + 1)] = f[Idx(x, y)]]

\* one iteration of the loop of handle_gravity_blocks / handle_descending_blocks
drop_or_settle(f, x, y) ==
    IF block_at_coord_hit_bottom_or_stationary_block(f, x, y)
    THEN [f EXCEPT ![Idx(x, y)] = Block(@.color, "Stationary")]
    ELSE [f EXCEPT ![Idx(x, y + 1)] = f[Idx(x, y)], ![Idx(x, y)] = Background]

handle_gravity_blocks(f, gravity_block_coords) ==
    LET g[k \in 0 .. Len(gravity_block_coords)] ==
            IF k = 0 THEN f
            ELSE Only({drop_or_settle(prev, gravity_block_coords[k][1],
                                      gravity_block_coords[k][2]) : prev \in {g[k - 1]}})
    IN g[Len(gravity_block_coords)]

\* handle_descending_blocks that takes the blocks from the top row downward
handle_descending_blocks_top_down(f, descending_block_coords) ==
    LET n == Len(descending_block_coords)
        g[k \in 0 .. n] ==
            IF k = 0 THEN f
            ELSE Only({drop_or_settle(prev, descending_block_coords[n + 1 - k][1],
                                      descending_block_coords[n + 1 - k][2]) : prev \in {g[k - 1]}})
    IN g[n]

handle_descending_blocks(f, descending_block_coords) ==
    LET g[k \in 0 .. Len(descending_block_coords)] ==
            IF k = 0 THEN f
            ELSE Only({drop_or_settle(prev, descending_block_coords[k][1],
                                      descending_block_coords[k][2]) : prev \in {g[k - 1]}})
    IN g[Len(descending_block_coords)]

\* impose_gravity_above that takes only the block right above
impose_gravity_right_above(f, x, y) ==
    [i \in Indices |->
        IF /\ i % FIELD_WIDTH_BLOCKS = x
           /\ i \div FIELD_WIDTH_BLOCKS = y - 1
           /\ as_block(f[i])
           /\ ~ is_disappearing(f[i])
        THEN Block(f[i].color, "Gravity")
        ELSE f[i]]

\* impose_gravity_above that takes the disappearing blocks too
impose_gravity_on_disappearing_too(f, x, y) ==
    [i \in Indices |->
        IF /\ i % FIELD_WIDTH_BLOCKS = x
           /\ i \div FIELD_WIDTH_BLOCKS < y
           /\ as_block(f[i])
        THEN Block(f[i].color, "Gravity")
        ELSE f[i]]

\* impose_gravity_above that takes the whole column
impose_gravity_on_column(f, x, y) ==
    [i \in Indices |->
        IF /\ i % FIELD_WIDTH_BLOCKS = x
           /\ as_block(f[i])
           /\ ~ is_disappearing(f[i])
        THEN Block(f[i].color, "Gravity")
        ELSE f[i]]

\* mark all blocks above (x, y) as pulled by gravity unless they are disappearing
impose_gravity_above(f, x, y) ==
    [i \in Indices |->
        IF /\ i % FIELD_WIDTH_BLOCKS = x
           /\ i \div FIELD_WIDTH_BLOCKS < y
           /\ as_block(f[i])
           /\ ~ is_disappearing(f[i])
        THEN Block(f[i].color, "Gravity")
        ELSE f[i]]

\* reduce_or_remove that removes the block when the counter is about to reach 0
reduce_or_remove_at_one(f, x, y) ==
    IF ~ (as_block(block_by_coord(f, x, y)) /\ is_disappearing(block_by_coord(f, x, y)))
    THEN f
    ELSE IF block_by_coord(f, x, y).counter > 1
    THEN [f EXCEPT ![Idx(x, y)].counter = @ - 1]
    ELSE impose_gravity_above([f EXCEPT ![Idx(x, y)] = Background], x, y)

\* reduce_or_remove that marks the blocks above while it still counts down
reduce_or_remove_pulls_early(f, x, y) ==
    IF ~ (as_block(block_by_coord(f, x, y)) /\ is_disappearing(block_by_coord(f, x, y)))
    THEN f
    ELSE IF block_by_coord(f, x, y).counter > 0
    THEN impose_gravity_above([f EXCEPT ![Idx(x, y)].counter = @ - 1], x, y)
    ELSE impose_gravity_above([f EXCEPT ![Idx(x, y)] = Background], x, y)

\* one iteration of the loop of handle_disappearing_blocks
reduce_or_remove(f, x, y) ==
    IF ~ (as_block(block_by_coord(f, x, y)) /\ is_disappearing(block_by_coord(f, x, y)))
    THEN f
    ELSE IF block_by_coord(f, x, y).counter > 0
    THEN [f EXCEPT ![Idx(x, y)].counter = @ - 1]
    ELSE impose_gravity_above([f EXCEPT ![Idx(x, y)] = Background], x, y)

\* handle_disappearing_blocks that leaves out the first coordinate
handle_disappearing_blocks_but_first(f, disappearing_block_coords) ==
    LET g[k \in 1 .. Len(disappearing_block_coords)] ==
            IF k = 1 THEN f
            ELSE Only({reduce_or_remove(prev, disappearing_block_coords[k][1],
                                        disappearing_block_coords[k][2]) : prev \in {g[k - 1]}})
    IN IF disappearing_block_coords = <<>> THEN f ELSE g[Len(disappearing_block_coords)]

handle_disappearing_blocks(f, disappearing_block_coords) ==
    LET g[k \in 0 .. Len(disappearing_block_coords)] ==
            IF k = 0 THEN f
            ELSE Only({reduce_or_remove(prev, disappearing_block_coords[k][1],
                                        disappearing_block_coords[k][2]) : prev \in {g[k - 1]}})
    IN g[Len(disappearing_block_coords)]

\* mark_sequence that leaves out the first block of the sequence
mark_sequence_but_first(f, sequence) ==
    [i \in Indices |->
        IF \E k \in 2 .. Len(sequence.coordinates) :
               Idx(sequence.coordinates[k][1], sequence.coordinates[k][2]) = i
        THEN Disappearing(f[i].color, DISAPPEAR_BLINK_COUNT, sequence.coordinates)
        ELSE f[i]]

\* the blocks of one sequence become Disappearing
mark_sequence(f, sequence) ==
    [i \in Indices |->
        IF \E k \in 1 .. Len(sequence.coordinates) :
               Idx(sequence.coordinates[k][1], sequence.coordinates[k][2]) = i
        THEN Disappearing(f[i].color, DISAPPEAR_BLINK_COUNT, sequence.coordinates)
        ELSE f[i]]

\* score_and_mark that scores a sequence by its length above the minimum
score_and_mark_above_minimum(f, s, sequences) ==
    LET g[k \in 0 .. Len(sequences)] ==
            IF k = 0 THEN [field |-> f, score |-> s]
            ELSE Only({[field |-> mark_sequence(prev.field, sequences[k]),
                        score |-> prev.score
                                  + (Len(sequences[k].coordinates) - MINIMUM_SEQUENCE)]
                       : prev \in {g[k - 1]}})
    IN g[Len(sequences)]

\* the loop of handle_sequences: add to the score, mark the blocks as disappearing
score_and_mark(f, s, sequences) ==
    LET g[k \in 0 .. Len(sequences)] ==
            IF k = 0 THEN [field |-> f, score |-> s]
            ELSE Only({[field |-> mark_sequence(prev.field, sequences[k]),
                        score |-> prev.score
                                  + (Len(sequences[k].coordinates) - (MINIMUM_SEQUENCE - 1))]
                       : prev \in {g[k - 1]}})
    IN g[Len(sequences)]

\* handle_sequences: [found, field, score] for the field f and the score s
handle_sequences(f, s) ==
    Only({IF Len(sequences) = 0
          THEN [found |-> FALSE, field |-> f, score |-> s]
          ELSE [found |-> TRUE,
                field |-> score_and_mark(f, s, sequences).field,
                score |-> score_and_mark(f, s, sequences).score]
          : sequences \in {get_coordinates_of_sequences(f, MINIMUM_SEQUENCE)}})

\* has_space_for_new_block that looks at the top cell only
has_space_in_top_cell(f) ==
    is_background(block_by_coord(f, NEW_BLOCK_COLUMN, 0))

has_space_for_new_block(f) ==
    /\ is_background(block_by_coord(f, NEW_BLOCK_COLUMN, 0))
    /\ is_background(block_by_coord(f, NEW_BLOCK_COLUMN, 1))
    /\ is_background(block_by_coord(f, NEW_BLOCK_COLUMN, 2))

\* make_new_descending_block that puts the blocks into the first column
make_new_descending_block_in_first_column(f, stats, color0, color1, color2) ==
    IF ~ has_space_for_new_block(f)
    THEN [ok |-> FALSE, field |-> f, color_stats |-> stats]
    ELSE LET stats0 == [stats EXCEPT ![color0] = @ + 1]
             stats1 == [stats0 EXCEPT ![color1] = @ + 1]
             stats2 == [stats1 EXCEPT ![color2] = @ + 1]
         IN [ok |-> TRUE,
             field |-> [f EXCEPT ![Idx(0, 0)] = Block(color0, "Descending"),
                                 ![Idx(0, 1)] = Block(color1, "Descending"),
                                 ![Idx(0, 2)] = Block(color2, "Descending")],
             color_stats |-> stats2]

\* make_new_descending_block with the sampled colours color0, color1, color2:
\* [ok, field, color_stats]
make_new_descending_block(f, stats, color0, color1, color2) ==
    IF ~ has_space_for_new_block(f)
    THEN [ok |-> FALSE, field |-> f, color_stats |-> stats]
    ELSE LET stats0 == [stats EXCEPT ![color0] = @ + 1]
             stats1 == [stats0 EXCEPT ![color1] = @ + 1]
             stats2 == [stats1 EXCEPT ![color2] = @ + 1]
         IN [ok |-> TRUE,
             field |-> [f EXCEPT ![Idx(NEW_BLOCK_COLUMN, 0)] = Block(color0, "Descending"),
                                 ![Idx(NEW_BLOCK_COLUMN, 1)] = Block(color1, "Descending"),
                                 ![Idx(NEW_BLOCK_COLUMN, 2)] = Block(color2, "Descending")],
             color_stats |-> stats2]

(***************************************************************************)
(* model.rs: the methods of Field that move the descending blocks          *)
(***************************************************************************)
\* swap_blocks that copies the second block over the first and leaves the
\* second as it is
swap_blocks_one_way(f, x1, y1, x2, y2) ==
    [f EXCEPT ![Idx(x1, y1)] = f[Idx(x2, y2)]]

swap_blocks(f, x1, y1, x2, y2) ==
    [f EXCEPT ![Idx(x1, y1)] = f[Idx(x2, y2)], ![Idx(x2, y2)] = f[Idx(x1, y1)]]

move_descending_blocks_left(f) ==
    LET descending_block_coords == block_coords_with_predicate(f, {"Descending"})
        can_move == \A k \in 1 .. Len(descending_block_coords) :
                        /\ descending_block_coords[k][1] > 0
                        /\ is_background(block_by_coord(f, descending_block_coords[k][1] - 1,
                                                        descending_block_coords[k][2]))
        g[k \in 0 .. Len(descending_block_coords)] ==
            IF k = 0 THEN f
            ELSE LET x == descending_block_coords[k][1]
                     y == descending_block_coords[k][2]
                 IN Only({swap_blocks(prev, x - 1, y, x, y) : prev \in {g[k - 1]}})
    IN IF can_move THEN g[Len(descending_block_coords)] ELSE f

move_descending_blocks_right(f) ==
    LET descending_block_coords == block_coords_with_predicate(f, {"Descending"})
        can_move == \A k \in 1 .. Len(descending_block_coords) :
                        /\ descending_block_coords[k][1] < FIELD_WIDTH_BLOCKS - 1
                        /\ is_background(block_by_coord(f, descending_block_coords[k][1] + 1,
                                                        descending_block_coords[k][2]))
        g[k \in 0 .. Len(descending_block_coords)] ==
            IF k = 0 THEN f
            ELSE LET x == descending_block_coords[k][1]
                     y == descending_block_coords[k][2]
                 IN Only({swap_blocks(prev, x + 1, y, x, y) : prev \in {g[k - 1]}})
    IN IF can_move THEN g[Len(descending_block_coords)] ELSE f

\* settle_or_swap_down that stops on the floor only
settle_or_swap_down_on_floor(r, x, y) ==
    IF y = FIELD_HEIGHT_BLOCKS - 1
    THEN [field |-> [r.field EXCEPT ![Idx(x, y)] = Block(@.color, "Stationary")],
          block_moved |-> r.block_moved]
    ELSE [field |-> swap_blocks(r.field, x, y, x, y + 1), block_moved |-> TRUE]

\* one iteration of the loop of Field::descend_gravity_blocks
settle_or_swap_down(r, x, y) ==
    IF block_at_coord_hit_bottom_or_stationary_block(r.field, x, y)
    THEN [field |-> [r.field EXCEPT ![Idx(x, y)] = Block(@.color, "Stationary")],
          block_moved |-> r.block_moved]
    ELSE [field |-> swap_blocks(r.field, x, y, x, y + 1), block_moved |-> TRUE]

\* Field::descend_gravity_blocks: the field after the call and the value returned
descend_gravity_blocks(f) ==
    LET gravity_blocks == block_coords_with_predicate(f, {"Gravity"})
        g[k \in 0 .. Len(gravity_blocks)] ==
            IF k = 0 THEN [field |-> f, block_moved |-> FALSE]
            ELSE Only({settle_or_swap_down(prev, gravity_blocks[k][1], gravity_blocks[k][2]) :
                          prev \in {g[k - 1]}})
    IN g[Len(gravity_blocks)]

\* Field::immediately_drop_gravity_blocks: descend_gravity_blocks until it
\* returns false; the last call moves nothing, and once no Gravity block is
\* left no further call is made
RECURSIVE immediately_drop_gravity_blocks(_)
immediately_drop_gravity_blocks(f) ==
    LET r == descend_gravity_blocks(f)
    IN IF r.block_moved THEN immediately_drop_gravity_blocks(r.field) ELSE r.field

\* Field::rotate_descending_blocks: the colours of the descending blocks, in
\* the order of block_coords_with_predicate, with the front one moved to the back
rotate_descending_blocks(f) ==
    LET descending_block_coords == block_coords_with_predicate(f, {"Descending"})
        n == Len(descending_block_coords)
        queue0 == [k \in 1 .. n |-> block_by_coord(f, descending_block_coords[k][1],
                                                   descending_block_coords[k][2]).color]
        queue == IF n = 0 THEN queue0 ELSE Append(Tail(queue0), Head(queue0))
        g[k \in 0 .. n] ==
            IF k = 0 THEN f
            ELSE [g[k - 1] EXCEPT ![Idx(descending_block_coords[k][1],
                                        descending_block_coords[k][2])].color = queue[k]]
    IN g[n]

\* Field::reduce_disappearing_blocks: the loop of handle_disappearing_blocks
\* over the disappearing blocks the method finds itself
reduce_disappearing_blocks(f) ==
    LET disappearing_block_coords == block_coords_with_predicate(f, {"Disappearing"})
        g[k \in 0 .. Len(disappearing_block_coords)] ==
            IF k = 0 THEN f
            ELSE Only({reduce_or_remove(prev, disappearing_block_coords[k][1],
                                        disappearing_block_coords[k][2]) : prev \in {g[k - 1]}})
    IN g[Len(disappearing_block_coords)]

\* Field::hand_descending_blocks_to_gravity
hand_descending_blocks_to_gravity(f) ==
    LET descending_block_coords == block_coords_with_predicate(f, {"Descending"})
        g[k \in 0 .. Len(descending_block_coords)] ==
            IF k = 0 THEN f
            ELSE [g[k - 1] EXCEPT ![Idx(descending_block_coords[k][1],
                                        descending_block_coords[k][2])].state = "Gravity"]
    IN g[Len(descending_block_coords)]

(***************************************************************************)
(* main.rs: the key handlers (event loop, lines 576-666)                   *)
(***************************************************************************)
\* move_left that asks only the topmost descending block whether it can move
move_left_asks_top(f) ==
    LET descending_block_coords == block_coords_with_predicate(f, {"Descending"})
        n == Len(descending_block_coords)
        can_move == n = 0 \/ /\ descending_block_coords[n][1] > 0
                             /\ is_background(block_by_coord(f, descending_block_coords[n][1] - 1,
                                                             descending_block_coords[n][2]))
        g[k \in 0 .. n] ==
            IF k = 0 THEN f
            ELSE LET x == descending_block_coords[k][1]
                     y == descending_block_coords[k][2]
                 IN Only({[prev EXCEPT ![Idx(x - 1, y)] = prev[Idx(x, y)],
                                       ![Idx(x, y)] = Background] : prev \in {g[k - 1]}})
    IN IF can_move THEN g[n] ELSE f

\* Left: copy each descending block one column to the left, clear its cell
move_left(f) ==
    LET descending_block_coords == block_coords_with_predicate(f, {"Descending"})
        can_move == \A k \in 1 .. Len(descending_block_coords) :
                        /\ descending_block_coords[k][1] > 0
                        /\ is_background(block_by_coord(f, descending_block_coords[k][1] - 1,
                                                        descending_block_coords[k][2]))
        g[k \in 0 .. Len(descending_block_coords)] ==
            IF k = 0 THEN f
            ELSE LET x == descending_block_coords[k][1]
                     y == descending_block_coords[k][2]
                 IN Only({[prev EXCEPT ![Idx(x - 1, y)] = prev[Idx(x, y)],
                                       ![Idx(x, y)] = Background] : prev \in {g[k - 1]}})
    IN IF can_move THEN g[Len(descending_block_coords)] ELSE f

\* Right: copy each descending block one column to the right, clear its cell
move_right(f) ==
    LET descending_block_coords == block_coords_with_predicate(f, {"Descending"})
        can_move == \A k \in 1 .. Len(descending_block_coords) :
                        /\ descending_block_coords[k][1] < FIELD_WIDTH_BLOCKS - 1
                        /\ is_background(block_by_coord(f, descending_block_coords[k][1] + 1,
                                                        descending_block_coords[k][2]))
        g[k \in 0 .. Len(descending_block_coords)] ==
            IF k = 0 THEN f
            ELSE LET x == descending_block_coords[k][1]
                     y == descending_block_coords[k][2]
                 IN Only({[prev EXCEPT ![Idx(x + 1, y)] = prev[Idx(x, y)],
                                       ![Idx(x, y)] = Background] : prev \in {g[k - 1]}})
    IN IF can_move THEN g[Len(descending_block_coords)] ELSE f

\* cycle_colors that moves the back colour of the queue to the front
cycle_colors_back_to_front(f) ==
    LET descending_block_coords == block_coords_with_predicate(f, {"Descending"})
        n == Len(descending_block_coords)
        queue0 == [k \in 1 .. n |-> block_by_coord(f, descending_block_coords[k][1],
                                                   descending_block_coords[k][2]).color]
        queue == IF n = 0 THEN queue0 ELSE <<queue0[n]>> \o SubSeq(queue0, 1, n - 1)
        g[k \in 0 .. n] ==
            IF k = 0 THEN f
            ELSE [g[k - 1] EXCEPT ![Idx(descending_block_coords[k][1],
                                        descending_block_coords[k][2])].color = queue[k]]
    IN g[n]

\* cycle_colors that exchanges the first two colours of the queue
cycle_colors_swaps_front_two(f) ==
    LET descending_block_coords == block_coords_with_predicate(f, {"Descending"})
        n == Len(descending_block_coords)
        queue0 == [k \in 1 .. n |-> block_by_coord(f, descending_block_coords[k][1],
                                                   descending_block_coords[k][2]).color]
        queue == IF n < 2 THEN queue0
                 ELSE <<queue0[2], queue0[1]>> \o SubSeq(queue0, 3, n)
        g[k \in 0 .. n] ==
            IF k = 0 THEN f
            ELSE [g[k - 1] EXCEPT ![Idx(descending_block_coords[k][1],
                                        descending_block_coords[k][2])].color = queue[k]]
    IN g[n]

\* Up: cycle through the colours of the descending blocks
cycle_colors(f) ==
    LET descending_block_coords == block_coords_with_predicate(f, {"Descending"})
        n == Len(descending_block_coords)
        queue0 == [k \in 1 .. n |-> block_by_coord(f, descending_block_coords[k][1],
                                                   descending_block_coords[k][2]).color]
        \* pop_front, push_back
        queue == IF n = 0 THEN queue0 ELSE Append(Tail(queue0), Head(queue0))
        g[k \in 0 .. n] ==
            IF k = 0 THEN f
            ELSE [g[k - 1] EXCEPT ![Idx(descending_block_coords[k][1],
                                        descending_block_coords[k][2])].color = queue[k]]
    IN g[n]

\* hand_to_gravity that hands over only the lowest descending block
hand_to_gravity_lowest(f) ==
    LET descending_block_coords == block_coords_with_predicate(f, {"Descending"})
    IN IF Len(descending_block_coords) = 0 THEN f
       ELSE [f EXCEPT ![Idx(descending_block_coords[1][1],
                            descending_block_coords[1][2])].state = "Gravity"]

\* hand_to_gravity that leaves the topmost descending block descending
hand_to_gravity_but_top(f) ==
    LET descending_block_coords == block_coords_with_predicate(f, {"Descending"})
        n == Len(descending_block_coords)
    IN [i \in Indices |-> IF /\ as_block(f[i]) /\ is_descending(f[i])
                             /\ i # Idx(descending_block_coords[n][1],
                                        descending_block_coords[n][2])
                          THEN Block(f[i].color, "Gravity") ELSE f[i]]

\* Down: hand the descending blocks over to gravity
hand_to_gravity(f) ==
    [i \in Indices |-> IF as_block(f[i]) /\ is_descending(f[i])
                       THEN Block(f[i].color, "Gravity") ELSE f[i]]

\* toggle_pause that resumes from every state but Play
toggle_pause_resumes(gs) ==
    IF gs = "Play" THEN "Pause" ELSE "Play"

\* F3: pause / unpause
toggle_pause(gs) ==
    CASE gs = "Over" -> "Over"
      [] gs = "Play" -> "Pause"
      [] gs = "Pause" -> "Play"

(***************************************************************************)
(* main.rs: the tick (main loop, lines 675-738)                            *)
(***************************************************************************)
\* step_of_tick without the test for disappearing blocks
step_of_tick_no_countdown(f) ==
    IF Len(block_coords_with_predicate(f, {"Gravity"})) > 0 THEN "gravity"
    ELSE "fall"

\* the step the tick takes: the nesting of the three tests of the main loop
step_of_tick(f) ==
    IF Len(block_coords_with_predicate(f, {"Disappearing"})) > 0 THEN "disappearing"
    ELSE IF Len(block_coords_with_predicate(f, {"Gravity"})) > 0 THEN "gravity"
    ELSE "fall"

\* speed_up that does not ask whether the limit is above 1
speed_up_below_one(limit, old_score, new_score) ==
    IF (new_score \div SCORE_SPEEDUP_DIVISOR) > (old_score \div SCORE_SPEEDUP_DIVISOR)
    THEN limit - 1
    ELSE limit

\* the fall limit after a scoring event that took the score from old_score to new_score
speed_up(limit, old_score, new_score) ==
    IF limit > 1 /\ (new_score \div SCORE_SPEEDUP_DIVISOR) > (old_score \div SCORE_SPEEDUP_DIVISOR)
    THEN limit - 1
    ELSE limit

\* the number of blocks spawned since the last restart
StatsTotal(stats) ==
    LET t[c \in 0 .. BLOCK_COLOR_COUNT] == IF c = 0 THEN 0 ELSE t[c - 1] + stats[c - 1]
    IN t[BLOCK_COLOR_COUNT]

ColorStatsNew == [c \in Colors |-> 0]

Init ==
    /\ field = FieldNew
    /\ game_state = "Play"
    /\ score = 0
    /\ color_stats = ColorStatsNew
    /\ block_fall_counter = 0
    /\ block_fall_limit = DEFAULT_BLOCK_FALL_LIMIT
    /\ fc = FieldCoordsNew
    /\ yielded = NothingYielded
    /\ found = NothingFound

\* the tick outside Play: nothing happens
TickNotPlay ==
    /\ game_state # "Play"
    /\ UNCHANGED vars
    /\ UNCHANGED <<fc, yielded, found>>

\* count down
TickDisappearing ==
    /\ game_state = "Play"
    /\ step_of_tick(field) = "disappearing"
    /\ \E disappearing_block_coords \in {block_coords_with_predicate(field, {"Disappearing"})} :
          field' = handle_disappearing_blocks(field, disappearing_block_coords)
    /\ block_fall_counter' = block_fall_limit
    /\ UNCHANGED <<game_state, score, color_stats, block_fall_limit>>
    /\ UNCHANGED <<fc, yielded, found>>

\* the gravity step that leaves the fall counter as it is
TickGravityKeepsCounter ==
    /\ game_state = "Play"
    /\ step_of_tick(field) = "gravity"
    /\ \E gravity_block_coords \in {block_coords_with_predicate(field, {"Gravity"})} :
          field' = handle_gravity_blocks(field, gravity_block_coords)
    /\ UNCHANGED <<game_state, score, color_stats, block_fall_limit, block_fall_counter>>
    /\ UNCHANGED <<fc, yielded, found>>

TickGravity ==
    /\ game_state = "Play"
    /\ step_of_tick(field) = "gravity"
    /\ \E gravity_block_coords \in {block_coords_with_predicate(field, {"Gravity"})} :
          field' = handle_gravity_blocks(field, gravity_block_coords)
    /\ block_fall_counter' = block_fall_limit
    /\ UNCHANGED <<game_state, score, color_stats, block_fall_limit>>
    /\ UNCHANGED <<fc, yielded, found>>

\* the fall counter has not reached the fall limit
TickWait ==
    /\ game_state = "Play"
    /\ step_of_tick(field) = "fall"
    /\ block_fall_counter # block_fall_limit
    /\ block_fall_counter' = block_fall_counter + 1
    /\ UNCHANGED <<field, game_state, score, color_stats, block_fall_limit>>
    /\ UNCHANGED <<fc, yielded, found>>

\* the fall step that looks for sequences as soon as its own descent has left
\* no descending block
TickFallScoresOnLanding ==
    /\ game_state = "Play"
    /\ step_of_tick(field) = "fall"
    /\ block_fall_counter = block_fall_limit
    /\ \E descending_block_coords \in {block_coords_with_predicate(field, {"Descending"})} :
       \E descended \in {handle_descending_blocks(field, descending_block_coords)} :
          IF Len(block_coords_with_predicate(descended, {"Descending"})) # 0
          THEN /\ field' = descended
               /\ block_fall_counter' = 0 + 1
               /\ UNCHANGED <<game_state, score, color_stats, block_fall_limit>>
          ELSE \E scored \in {handle_sequences(descended, score)} :
               IF scored.found
               THEN /\ field' = scored.field
                    /\ score' = scored.score
                    /\ block_fall_limit' = speed_up(block_fall_limit, score, scored.score)
                    /\ block_fall_counter' = (block_fall_limit' - 1) + 1
                    /\ UNCHANGED <<game_state, color_stats>>
               ELSE \E color0, color1, color2 \in Colors :
                    \E made \in {make_new_descending_block(descended, color_stats,
                                                           color0, color1, color2)} :
                       /\ made.ok => StatsTotal(color_stats) < 3 * MaxSpawns
                       /\ field' = made.field
                       /\ color_stats' = made.color_stats
                       /\ game_state' = IF made.ok THEN "Play" ELSE "Over"
                       /\ block_fall_counter' = 0 + 1
                       /\ UNCHANGED <<score, block_fall_limit>>
    /\ UNCHANGED <<fc, yielded, found>>

\* handle descending blocks; with none left, score the sequences or make a new block
TickFall ==
    /\ game_state = "Play"
    /\ step_of_tick(field) = "fall"
    /\ block_fall_counter = block_fall_limit
    /\ \E descending_block_coords \in {block_coords_with_predicate(field, {"Descending"})} :
       \E descended \in {handle_descending_blocks(field, descending_block_coords)} :
          IF Len(descending_block_coords) # 0
          THEN /\ field' = descended
               /\ block_fall_counter' = 0 + 1
               /\ UNCHANGED <<game_state, score, color_stats, block_fall_limit>>
          ELSE \E scored \in {handle_sequences(descended, score)} :
               IF scored.found
               THEN /\ field' = scored.field
                    /\ score' = scored.score
                    /\ block_fall_limit' = speed_up(block_fall_limit, score, scored.score)
                    /\ block_fall_counter' = (block_fall_limit' - 1) + 1
                    /\ UNCHANGED <<game_state, color_stats>>
               ELSE \E color0, color1, color2 \in Colors :
                    \E made \in {make_new_descending_block(descended, color_stats,
                                                           color0, color1, color2)} :
                       /\ made.ok => StatsTotal(color_stats) < 3 * MaxSpawns
                       /\ field' = made.field
                       /\ color_stats' = made.color_stats
                       /\ game_state' = IF made.ok THEN "Play" ELSE "Over"
                       /\ block_fall_counter' = 0 + 1
                       /\ UNCHANGED <<score, block_fall_limit>>
    /\ UNCHANGED <<fc, yielded, found>>

Tick == TickNotPlay \/ TickDisappearing \/ TickGravity \/ TickWait \/ TickFall

\* Left that shifts the blocks in every game state
KeyLeft_in_any_state ==
    /\ field' = move_left(field)
    /\ UNCHANGED <<game_state, score, color_stats, block_fall_counter, block_fall_limit>>
    /\ UNCHANGED <<fc, yielded, found>>

KeyLeft ==
    /\ field' = IF game_state = "Play" THEN move_left(field) ELSE field
    /\ UNCHANGED <<game_state, score, color_stats, block_fall_counter, block_fall_limit>>
    /\ UNCHANGED <<fc, yielded, found>>

KeyRight ==
    /\ field' = IF game_state = "Play" THEN move_right(field) ELSE field
    /\ UNCHANGED <<game_state, score, color_stats, block_fall_counter, block_fall_limit>>
    /\ UNCHANGED <<fc, yielded, found>>

KeyUp ==
    /\ field' = IF game_state = "Play" THEN cycle_colors(field) ELSE field
    /\ UNCHANGED <<game_state, score, color_stats, block_fall_counter, block_fall_limit>>
    /\ UNCHANGED <<fc, yielded, found>>

KeyDown ==
    /\ field' = IF game_state = "Play" THEN hand_to_gravity(field) ELSE field
    /\ UNCHANGED <<game_state, score, color_stats, block_fall_counter, block_fall_limit>>
    /\ UNCHANGED <<fc, yielded, found>>

\* the restart that keeps the score
KeyF2_keeps_score ==
    /\ field' = [i \in Indices |-> Background]
    /\ color_stats' = [c \in Colors |-> 0]
    /\ block_fall_limit' = DEFAULT_BLOCK_FALL_LIMIT
    /\ game_state' = "Play"
    /\ UNCHANGED <<score, block_fall_counter>>
    /\ UNCHANGED <<fc, yielded, found>>

\* the restart that sets the fall limit to 1
KeyF2_lowers_limit ==
    /\ field' = [i \in Indices |-> Background]
    /\ color_stats' = [c \in Colors |-> 0]
    /\ score' = 0
    /\ block_fall_limit' = 1
    /\ game_state' = "Play"
    /\ UNCHANGED block_fall_counter
    /\ UNCHANGED <<fc, yielded, found>>

\* F2: restart game
KeyF2 ==
    /\ field' = [i \in Indices |-> Background]
    /\ color_stats' = [c \in Colors |-> 0]
    /\ score' = 0
    /\ block_fall_limit' = DEFAULT_BLOCK_FALL_LIMIT
    /\ game_state' = "Play"
    /\ UNCHANGED block_fall_counter
    /\ UNCHANGED <<fc, yielded, found>>

KeyF3 ==
    /\ game_state' = toggle_pause(game_state)
    /\ UNCHANGED <<field, score, color_stats, block_fall_counter, block_fall_limit>>
    /\ UNCHANGED <<fc, yielded, found>>

Key == KeyLeft \/ KeyRight \/ KeyUp \/ KeyDown \/ KeyF2 \/ KeyF3

Next == Tick \/ Key

Spec == Init /\ [][Next]_vars

(***************************************************************************)
(* Mid-game: the state one tick after a triplet has landed on a settled    *)
(* field.  The field below the triplet is a gap-free stack of Stationary   *)
(* blocks without a scoring sequence; the statistics count the blocks on   *)
(* the field; no key is pressed, the ticks keep occurring.                 *)
(***************************************************************************)
\* the number of blocks in column x of a gap-free field
tower_height(f, x) ==
    LET background == {y \in 0 .. (FIELD_HEIGHT_BLOCKS - 1) :
                          is_background(block_by_coord(f, x, y))}
    IN IF background = {} THEN FIELD_HEIGHT_BLOCKS
       ELSE (FIELD_HEIGHT_BLOCKS - 1) - (CHOOSE y \in background : \A z \in background : z <= y)

\* a Stationary block of colour c on top of column x
Push(f, x, c) ==
    [f EXCEPT ![Idx(x, FIELD_HEIGHT_BLOCKS - 1 - tower_height(f, x))] = Block(c, "Stationary")]

\* the gap-free fields of exactly n Stationary blocks
RECURSIVE Stacks(_)
Stacks(n) ==
    IF n = 0 THEN {FieldNew}
    ELSE {Push(f, x, c) : <<f, x, c>> \in
            {t \in Stacks(n - 1) \X (0 .. (FIELD_WIDTH_BLOCKS - 1)) \X Colors :
                tower_height(t[1], t[2]) < FIELD_HEIGHT_BLOCKS}}

SettledFields ==
    {f \in UNION {Stacks(n) : n \in 0 .. (MaxBlocks - 3)} :
        get_coordinates_of_sequences(f, MINIMUM_SEQUENCE) = <<>>}

\* the colours of the blocks on the field, counted
CountColors(f) == [c \in Colors |-> Cardinality({i \in Indices : f[i].color = c})]

\* the statistics behind the field f: its blocks and, of colour 0, the blocks
\* that have been cleared, MaxSpawns or more triplets in all
SpawnedSoFar(f) ==
    LET on_field == Cardinality({i \in Indices : as_block(f[i])})
        least == IF on_field > 3 * MaxSpawns THEN on_field ELSE 3 * MaxSpawns
        total == 3 * ((least + 2) \div 3)
    IN [c \in Colors |-> CountColors(f)[c] + IF c = 0 THEN total - on_field ELSE 0]

\* Colours are only ever compared for equality, so a field stands for its
\* recolourings: of these only the one whose colours first occur in ascending
\* order (by index) is drawn.
FirstIndex(f, c) == CHOOSE i \in Indices : f[i].color = c /\ \A j \in 0 .. (i - 1) : f[j].color # c

ColorsInOrder(f) ==
    \A c \in Colors \ {0} :
        (\E i \in Indices : f[i].color = c)
            => /\ \E i \in Indices : f[i].color = c - 1
               /\ FirstIndex(f, c - 1) < FirstIndex(f, c)

InitMid ==
    \E f \in SettledFields, x \in 0 .. (FIELD_WIDTH_BLOCKS - 1), color0, color1, color2 \in Colors :
        /\ tower_height(f, x) <= FIELD_HEIGHT_BLOCKS - 3
        /\ field = Push(Push(Push(f, x, color2), x, color1), x, color0)
        /\ ColorsInOrder(field)
        /\ game_state = "Play"
        /\ score = 0
        /\ color_stats = SpawnedSoFar(field)
        /\ block_fall_counter = 1
        /\ block_fall_limit = DEFAULT_BLOCK_FALL_LIMIT
        /\ fc = FieldCoordsNew
        /\ yielded = NothingYielded
        /\ found = NothingFound

\* the timer keeps ticking: a countdown or a gravity step that is due is taken
SpecMid ==
    InitMid /\ [][Tick]_vars /\ WF_vars(TickDisappearing) /\ WF_vars(TickGravity)

(***************************************************************************)
(* The game with a block under the player's control: the state right after *)
(* a new descending block was made on a settled field, the ticks and the   *)
(* keys that act on the descending blocks.  As in the mid-game             *)
(* specification no further block is made.                                 *)
(***************************************************************************)
ObstacleFields ==
    {f \in UNION {Stacks(n) : n \in 0 .. MaxObstacles} :
        get_coordinates_of_sequences(f, MINIMUM_SEQUENCE) = <<>>}

InitDesc ==
    \E f \in ObstacleFields, color0, color1, color2 \in Colors :
        /\ has_space_for_new_block(f)
        /\ field = make_new_descending_block(f, ColorStatsNew, color0, color1, color2).field
        /\ ColorsInOrder(field)
        /\ game_state = "Play"
        /\ score = 0
        /\ color_stats = SpawnedSoFar(field)
        /\ block_fall_counter = 1
        /\ block_fall_limit = DEFAULT_BLOCK_FALL_LIMIT
        /\ fc = FieldCoordsNew
        /\ yielded = NothingYielded
        /\ found = NothingFound

NextDesc == Tick \/ KeyLeft \/ KeyRight \/ KeyUp \/ KeyDown

SpecDesc == InitDesc /\ [][NextDesc]_vars

(***************************************************************************)
(* Late in the game: a triplet has landed on a settled field when the      *)
(* score is one or two points short of a multiple of the speed-up divisor. *)
(* Every earlier multiple has lowered the fall limit by one, down to 1.    *)
(***************************************************************************)
LateGames ==
    {[score |-> SCORE_SPEEDUP_DIVISOR * k + SCORE_SPEEDUP_DIVISOR - short,
      block_fall_limit |-> DEFAULT_BLOCK_FALL_LIMIT - k] :
        k \in 0 .. (DEFAULT_BLOCK_FALL_LIMIT - 1), short \in 1 .. 2}

InitLate ==
    \E f \in ObstacleFields, x \in 0 .. (FIELD_WIDTH_BLOCKS - 1), color0, color1, color2 \in Colors,
       late \in LateGames :
        /\ tower_height(f, x) <= FIELD_HEIGHT_BLOCKS - 3
        /\ field = Push(Push(Push(f, x, color2), x, color1), x, color0)
        /\ ColorsInOrder(field)
        /\ game_state = "Play"
        /\ score = late.score
        /\ color_stats = [SpawnedSoFar(field) EXCEPT ![0] = @ + 3 * late.score]
        /\ block_fall_counter = 1
        /\ block_fall_limit = late.block_fall_limit
        /\ fc = FieldCoordsNew
        /\ yielded = NothingYielded
        /\ found = NothingFound

SpecLate == InitLate /\ [][Next]_vars

\* the same on a field that holds nothing but the landed triplet, with a tick
\* that keeps running: the main loop calls it once per frame, whatever the
\* keys do
InitLateRun == InitLate /\ Cardinality({i \in Indices : field[i].state # "Background"}) = 3

SpecLateRun == InitLateRun /\ [][Next]_vars /\ WF_vars(Tick)

(***************************************************************************)
(* The coordinate iterator on its own: an iterator over a grid of w x h    *)
(* cells (the tests of model.rs build it for 2 x 4, Field::coords for the  *)
(* whole field), consumed from the front and from the back in any order.   *)
(***************************************************************************)
InitCoords ==
    \E w \in 1 .. FIELD_WIDTH_BLOCKS, h \in 1 .. FIELD_HEIGHT_BLOCKS :
        /\ fc = [index |-> 0, length |-> w * h, field_width |-> w]
        /\ yielded = [front |-> <<>>, back |-> <<>>, last |-> <<>>, cells |-> w * h]
        /\ found = NothingFound
        /\ field = FieldNew
        /\ game_state = "Play"
        /\ score = 0
        /\ color_stats = ColorStatsNew
        /\ block_fall_counter = 0
        /\ block_fall_limit = DEFAULT_BLOCK_FALL_LIMIT

CoordsNext ==
    /\ \E r \in {FieldCoords_next(fc)} :
          /\ fc' = r.it
          /\ yielded' = [yielded EXCEPT !.front = @ \o r.item, !.last = r.item]
    /\ UNCHANGED <<field, game_state, score, color_stats, block_fall_counter, block_fall_limit,
                   found>>

CoordsNextBack ==
    /\ \E r \in {FieldCoords_next_back(fc)} :
          /\ fc' = r.it
          /\ yielded' = [yielded EXCEPT !.back = @ \o r.item, !.last = r.item]
    /\ UNCHANGED <<field, game_state, score, color_stats, block_fall_counter, block_fall_limit,
                   found>>

NextCoords == CoordsNext \/ CoordsNextBack

SpecCoords == InitCoords /\ [][NextCoords]_vars

(***************************************************************************)
(* The sequence detector on its own: find_sequence and                     *)
(* get_coordinates_of_sequences are pub methods of Field and take any      *)
(* field, so the field is drawn from the fields with a few blocks of any   *)
(* colour and any state in the lowest rows, one field for each way of      *)
(* naming the colours.                                                     *)
(***************************************************************************)
\* rows of the field, from the floor, that hold the blocks
SeqRows == 2

\* blocks on a field the detector is run on
MaxSeqBlocks == 3

AnyBlocks ==
    {Block(c, st) : c \in Colors, st \in {"Stationary", "Descending", "Gravity"}}
    \cup {Disappearing(c, DISAPPEAR_BLINK_COUNT, <<>>) : c \in Colors}

\* the cells of the lowest rows
SeqCells == {i \in Indices : i \div FIELD_WIDTH_BLOCKS >= FIELD_HEIGHT_BLOCKS - SeqRows}

\* the fields with up to MaxSeqBlocks blocks, all of them in the given cells
SeqFields(cells) ==
    UNION {{[i \in Indices |-> IF i \in S THEN g[i] ELSE Background] : g \in [S -> AnyBlocks]} :
              S \in {S \in SUBSET cells : Cardinality(S) <= MaxSeqBlocks}}

InitSeq ==
    /\ field \in SeqFields(SeqCells)
    /\ ColorsInOrder(field)
    /\ found = NothingFound
    /\ game_state = "Play"
    /\ score = 0
    /\ color_stats = ColorStatsNew
    /\ block_fall_counter = 0
    /\ block_fall_limit = DEFAULT_BLOCK_FALL_LIMIT
    /\ fc = FieldCoordsNew
    /\ yielded = NothingYielded

\* field.find_sequence(x, y, dx, dy), in one of the four directions
\* get_coordinates_of_sequences looks in
FindSequence ==
    /\ \E x \in 0 .. (FIELD_WIDTH_BLOCKS - 1), y \in 0 .. (FIELD_HEIGHT_BLOCKS - 1),
          d \in {<<1, 0>>, <<1, 1>>, <<0, 1>>, <<-1, 1>>} :
          found' = [call |-> <<x, y, d[1], d[2]>>,
                    sequences |-> <<find_sequence(field, x, y, d[1], d[2])>>]
    /\ UNCHANGED <<field, game_state, score, color_stats, block_fall_counter, block_fall_limit,
                   fc, yielded>>

\* field.get_coordinates_of_sequences(|seq| seq.coordinates.len() >= min_len)
GetCoordinatesOfSequences ==
    /\ \E min_len \in 1 .. MINIMUM_SEQUENCE :
          found' = [call |-> <<min_len>>,
                    sequences |-> get_coordinates_of_sequences(field, min_len)]
    /\ UNCHANGED <<field, game_state, score, color_stats, block_fall_counter, block_fall_limit,
                   fc, yielded>>

NextSeq == FindSequence \/ GetCoordinatesOfSequences

SpecSeq == InitSeq /\ [][NextSeq]_vars

(***************************************************************************)
(* A game in which the tick keeps running: the main loop calls the tick    *)
(* once per frame for as long as the program runs (main.rs 574-738).       *)
(***************************************************************************)
SpecRun == Init /\ [][NextDesc]_vars /\ WF_vars(Tick)

(***************************************************************************)
(* ai.rs: the move advisor                                                 *)
(***************************************************************************)
\* rotate_descending_blocks of ai.rs that rotates once whatever the count
ai_rotate_descending_blocks_once(f, count) ==
    LET desc_block_coords == block_coords_with_predicate(f, {"Descending"})
        n == Len(desc_block_coords)
        desc_blocks == [k \in 1 .. n |-> block_by_coord(f, desc_block_coords[k][1],
                                                        desc_block_coords[k][2])]
        rotated == Append(Tail(desc_blocks), Head(desc_blocks))
        g[k \in 0 .. n] ==
            IF k = 0 THEN f
            ELSE [g[k - 1] EXCEPT ![Idx(desc_block_coords[k][1],
                                        desc_block_coords[k][2])] = rotated[k]]
    IN IF n = 0 \/ count = 0 THEN f ELSE g[n]

\* rotate_descending_blocks of ai.rs: count times, the descending blocks (the
\* whole blocks, at the coordinates found before the first round) with the
\* front one moved to the back
ai_rotate_descending_blocks(f, count) ==
    LET desc_block_coords == block_coords_with_predicate(f, {"Descending"})
        n == Len(desc_block_coords)
        round[r \in 0 .. count] ==
            IF r = 0 THEN f
            ELSE LET before == round[r - 1]
                     desc_blocks == [k \in 1 .. n |->
                                        block_by_coord(before, desc_block_coords[k][1],
                                                       desc_block_coords[k][2])]
                     rotated == Append(Tail(desc_blocks), Head(desc_blocks))
                     g[k \in 0 .. n] ==
                         IF k = 0 THEN before
                         ELSE [g[k - 1] EXCEPT ![Idx(desc_block_coords[k][1],
                                                     desc_block_coords[k][2])] = rotated[k]]
                 IN g[n]
    IN IF n = 0 THEN f ELSE round[count]

\* the row in which the descending block at (x, y) comes to rest: the loop
\* `while !hit_bottom_or_stationary_block(x, new_y) { new_y += 1 }`
landing_row(f, x, y) ==
    CHOOSE new_y \in y .. (FIELD_HEIGHT_BLOCKS - 1) :
        /\ block_at_coord_hit_bottom_or_stationary_block(f, x, new_y)
        /\ \A z \in y .. (new_y - 1) : ~ block_at_coord_hit_bottom_or_stationary_block(f, x, z)

\* drop_descending_blocks: deepest first, each descending block is swapped into
\* its landing row and becomes Stationary
drop_descending_blocks(f) ==
    LET desc_block_coords == block_coords_with_predicate(f, {"Descending"})
        g[k \in 0 .. Len(desc_block_coords)] ==
            IF k = 0 THEN f
            ELSE LET x == desc_block_coords[k][1]
                     y == desc_block_coords[k][2]
                 IN Only({[swap_blocks(prev, x, y, x, new_y)
                              EXCEPT ![Idx(x, new_y)].state = "Stationary"]
                          : <<prev, new_y>> \in
                              {<<p, landing_row(p, x, y)>> : p \in {g[k - 1]}}})
    IN g[Len(desc_block_coords)]

SCORING_SEQUENCE_WEIGHT == 3

EXTENSIBLE_SEQUENCE_WEIGHT == 1

MAX_TOWER_HEIGHT_WEIGHT == -3

\* rate_field that leaves the towers out
rate_field_without_towers(f) ==
    LET sequences == get_coordinates_of_sequences(f, 2)
        total[k \in 0 .. Len(sequences)] ==
            IF k = 0 THEN 0
            ELSE total[k - 1]
                 + (IF Len(sequences[k].coordinates) >= MINIMUM_SEQUENCE
                    THEN Len(sequences[k].coordinates) * SCORING_SEQUENCE_WEIGHT
                    ELSE IF sequences[k].extensible
                    THEN Len(sequences[k].coordinates) * EXTENSIBLE_SEQUENCE_WEIGHT
                    ELSE 0)
    IN Only({total[Len(seqs)] : seqs \in {sequences}})

\* rate_field: the sequences of more than one block, weighted, and the height
\* of the highest tower
rate_field(f) ==
    LET sequences == get_coordinates_of_sequences(f, 2)
        total[k \in 0 .. Len(sequences)] ==
            IF k = 0 THEN 0
            ELSE total[k - 1]
                 + (IF Len(sequences[k].coordinates) >= MINIMUM_SEQUENCE
                    THEN Len(sequences[k].coordinates) * SCORING_SEQUENCE_WEIGHT
                    ELSE IF sequences[k].extensible
                    THEN Len(sequences[k].coordinates) * EXTENSIBLE_SEQUENCE_WEIGHT
                    ELSE 0)
        max_tower_height[x \in 0 .. FIELD_WIDTH_BLOCKS] ==
            IF x = 0 THEN 0
            ELSE IF tower_height(f, x - 1) > max_tower_height[x - 1]
                 THEN tower_height(f, x - 1) ELSE max_tower_height[x - 1]
    IN Only({total[Len(seqs)] : seqs \in {sequences}})
       + max_tower_height[FIELD_WIDTH_BLOCKS] * MAX_TOWER_HEIGHT_WEIGHT

\* the body of the two loops of pick_best_move: the rated field for one rotation
\* count and one column, or nothing if the column is already filled
rated_move(base_field, desc_blocks, rotate_count, column) ==
    LET rotated_field == ai_rotate_descending_blocks(base_field, rotate_count)
        already_filled == \E k \in 1 .. Len(desc_blocks) :
                              ~ is_background(block_by_coord(rotated_field, column,
                                                             desc_blocks[k][2]))
        g[k \in 0 .. Len(desc_blocks)] ==
            IF k = 0 THEN rotated_field
            ELSE Only({swap_blocks(prev, desc_blocks[k][1], desc_blocks[k][2],
                                   column, desc_blocks[k][2]) : prev \in {g[k - 1]}})
    IN IF already_filled THEN <<>>
       ELSE <<[column |-> column, rotate_count |-> rotate_count,
               rating |-> rate_field(drop_descending_blocks(g[Len(desc_blocks)]))]>>

\* best_move_of that keeps the first of the best ratings
best_move_of_first_maximum(base_field, desc_blocks, rotations) ==
    LET moves == rotations * FIELD_WIDTH_BLOCKS
        fields_ratings[p \in 0 .. moves] ==
            IF p = 0 THEN <<>>
            ELSE fields_ratings[p - 1]
                 \o rated_move(base_field, desc_blocks,
                               (p - 1) \div FIELD_WIDTH_BLOCKS, (p - 1) % FIELD_WIDTH_BLOCKS)
    IN Only({IF rated = <<>> THEN <<>>
             ELSE LET best == CHOOSE k \in 1 .. Len(rated) :
                                 /\ \A j \in 1 .. Len(rated) : rated[j].rating <= rated[k].rating
                                 /\ \A j \in 1 .. (k - 1) :
                                        rated[j].rating < rated[k].rating
                  IN <<[column |-> rated[best].column,
                        rotate_count |-> rated[best].rotate_count]>>
             : rated \in {fields_ratings[moves]}})

\* the loops of pick_best_move over the rotation counts 0 .. rotations - 1 and
\* the columns, and max_by_key, which keeps the last of the best ratings
best_move_of(base_field, desc_blocks, rotations) ==
    LET moves == rotations * FIELD_WIDTH_BLOCKS
        fields_ratings[p \in 0 .. moves] ==
            IF p = 0 THEN <<>>
            ELSE fields_ratings[p - 1]
                 \o rated_move(base_field, desc_blocks,
                               (p - 1) \div FIELD_WIDTH_BLOCKS, (p - 1) % FIELD_WIDTH_BLOCKS)
    IN Only({IF rated = <<>> THEN <<>>
             ELSE LET best == CHOOSE k \in 1 .. Len(rated) :
                                 /\ \A j \in 1 .. Len(rated) : rated[j].rating <= rated[k].rating
                                 /\ \A j \in (k + 1) .. Len(rated) :
                                        rated[j].rating < rated[k].rating
                  IN <<[column |-> rated[best].column,
                        rotate_count |-> rated[best].rotate_count]>>
             : rated \in {fields_ratings[moves]}})

\* pick_best_move that tries one rotation more than there are descending blocks
pick_best_move_one_rotation_more(base_field) ==
    LET desc_blocks == block_coords_with_predicate(base_field, {"Descending"})
    IN IF Len(desc_blocks) = 0 THEN <<>>
       ELSE Only({best_move_of(base_field, d, Len(d) + 1) : d \in {desc_blocks}})

\* pick_best_move: Option<BestMove> as a sequence of length 0 or 1
pick_best_move(base_field) ==
    LET desc_blocks == block_coords_with_predicate(base_field, {"Descending"})
    IN IF Len(desc_blocks) = 0 THEN <<>>
       ELSE Only({best_move_of(base_field, d, Len(d)) : d \in {desc_blocks}})

(***************************************************************************)
(* Vocabulary of the properties: the field read cell by cell.              *)
(***************************************************************************)
XOf(i) == i % FIELD_WIDTH_BLOCKS

YOf(i) == i \div FIELD_WIDTH_BLOCKS

HasDisappearing(f) == \E i \in Indices : f[i].state = "Disappearing"

HasFalling(f) == \E i \in Indices : f[i].state = "Gravity"

HasDescending(f) == \E i \in Indices : f[i].state = "Descending"

\* every block on the field is Stationary
AllSettled(f) == \A i \in Indices : f[i].state \in {"Background", "Stationary"}

Axes == {<<1, 0>>, <<1, 1>>, <<0, 1>>, <<-1, 1>>}

\* a Stationary block of colour c lies at (x, y)
SettledAt(f, x, y, c) ==
    /\ InField(x, y)
    /\ f[Idx(x, y)].state = "Stationary"
    /\ f[Idx(x, y)].color = c

\* the n cells from p along the axis d, first the one at the negative end
RunCells(p, d, n) == [k \in 1 .. n |-> <<p[1] + (k - 1) * d[1], p[2] + (k - 1) * d[2]>>]

\* the n cells from p along d are a maximal run of one colour
IsRun(f, p, d, n) ==
    LET c == f[Idx(p[1], p[2])].color
    IN /\ \A k \in 0 .. (n - 1) : SettledAt(f, p[1] + k * d[1], p[2] + k * d[2], c)
       /\ ~ SettledAt(f, p[1] - d[1], p[2] - d[2], c)
       /\ ~ SettledAt(f, p[1] + n * d[1], p[2] + n * d[2], c)

MaxRun == IF FIELD_WIDTH_BLOCKS > FIELD_HEIGHT_BLOCKS THEN FIELD_WIDTH_BLOCKS
          ELSE FIELD_HEIGHT_BLOCKS

\* the maximal runs of at least k cells, each as the sequence of its cells
MaximalRuns(f, k) ==
    {RunCells(t[1], t[2], t[3]) : t \in
        {t \in {coords_for_index(i) : i \in Indices} \X Axes \X (k .. MaxRun) :
            IsRun(f, t[1], t[2], t[3])}}

\* the cells of a run, as indices
RunIndices(run) == {Idx(run[k][1], run[k][2]) : k \in 1 .. Len(run)}

\* the sum of (length - 2) over a set of runs
RECURSIVE RunScore(_)
RunScore(runs) ==
    IF runs = {} THEN 0
    ELSE LET r == CHOOSE r \in runs : TRUE
         IN (Len(r) - 2) + RunScore(runs \ {r})

\* the tick is about to check for sequences: Play, every block settled, limit reached
ScoringDue ==
    /\ game_state = "Play"
    /\ AllSettled(field)
    /\ block_fall_counter = block_fall_limit

(***************************************************************************)
(* C1                                                                      *)
(***************************************************************************)
\* every disappearing block counts down by one or is removed
C1CountedDown ==
    \A i \in Indices :
        field[i].state = "Disappearing"
            => \/ field'[i] = Background
               \/ /\ field'[i].state = "Disappearing"
                  /\ field'[i].counter = field[i].counter - 1

\* no falling and no descending block leaves its cell, no empty cell is filled
C1NothingMoved ==
    /\ \A i \in Indices :
          field[i].state \in {"Gravity", "Descending"}
              => as_block(field'[i]) /\ field'[i].color = field[i].color
    /\ \A i \in Indices : is_background(field[i]) => is_background(field'[i])

\* every falling block settles in its cell or is found one row further down
C1Fell ==
    \A i \in Indices :
        field[i].state = "Gravity"
            => \/ field'[i] = Block(field[i].color, "Stationary")
               \/ /\ YOf(i) < FIELD_HEIGHT_BLOCKS - 1
                  /\ field'[i + FIELD_WIDTH_BLOCKS] = field[i]

\* no block is marked as disappearing, no block is spawned, the game goes on
C1NoScoringNoSpawn ==
    /\ \A i \in Indices : field'[i].state = "Disappearing" => field[i].state = "Disappearing"
    /\ \A i \in Indices : field'[i].state = "Descending" => field[i].state = "Descending"
    /\ UNCHANGED <<score, color_stats, game_state, block_fall_limit>>

\* the step a tick in Play takes
C1Step ==
    /\ HasDisappearing(field)
          => /\ C1CountedDown
             /\ C1NothingMoved
             /\ C1NoScoringNoSpawn
             /\ block_fall_counter' = block_fall_limit
    /\ (~ HasDisappearing(field) /\ HasFalling(field))
          => /\ C1Fell
             /\ \A i \in Indices : field[i].state = "Descending" => field'[i] = field[i]
             /\ C1NoScoringNoSpawn
             /\ block_fall_counter' = block_fall_limit
    /\ (~ HasDisappearing(field) /\ ~ HasFalling(field))
          => /\ ~ HasFalling(field')
             /\ block_fall_counter # block_fall_limit
                   => field' = field /\ block_fall_counter' = block_fall_counter + 1
             /\ block_fall_counter = block_fall_limit
                   => block_fall_counter' \in {1, block_fall_limit'}

\* C1: in Play every tick takes exactly one step, chosen by strict priority: the
\* countdown of the disappearing blocks if there is one, else the gravity step if
\* a block is falling, else the fall-counter / descent step; while a block is
\* disappearing no falling or descending block moves.
C1_TickTakesOneStepByPriority == [][(Tick /\ game_state = "Play") => C1Step]_vars

\* a countdown tick has acted: a block has counted down once, the fall counter
\* is forced to the limit
C1_Witness ==
    /\ game_state = "Play"
    /\ block_fall_counter = block_fall_limit
    /\ \E i \in Indices :
          field[i].state = "Disappearing" /\ field[i].counter = DISAPPEAR_BLINK_COUNT - 1

(***************************************************************************)
(* C2                                                                      *)
(***************************************************************************)
\* the runs among runs that hold the cell i
C2RunsOf(runs, i) == {run \in runs : i \in RunIndices(run)}

\* what handle_sequences makes of the settled field f and the score s
C2Scored(f, s) ==
    LET runs == MaximalRuns(f, MINIMUM_SEQUENCE)
        result == handle_sequences(f, s)
    IN IF runs = {}
       THEN result = [found |-> FALSE, field |-> f, score |-> s]
       ELSE /\ result.found
            /\ result.score = s + RunScore(runs)
            /\ \A i \in Indices :
                  IF C2RunsOf(runs, i) # {}
                  THEN /\ result.field[i].state = "Disappearing"
                       /\ result.field[i].counter = DISAPPEAR_BLINK_COUNT
                       /\ result.field[i].color = f[i].color
                       /\ result.field[i].sequence \in C2RunsOf(runs, i)
                  ELSE result.field[i] = f[i]

\* C2: scoring a settled field adds to the score the sum of (length - 2) over all
\* runs of at least 3 cells, a shared cell counting in each of its runs; every
\* cell of such a run becomes Disappearing with the full blink counter and keeps
\* its colour, every other cell is unchanged; without such a run the field and
\* the score are unchanged and nothing is reported as found.
C2_ScoringAddsLengthMinusTwo == AllSettled(field) => C2Scored(field, score)

\* scoring has acted on two runs that share a cell: both are marked with the
\* full counter and each has been scored
C2_Witness ==
    /\ score >= 2
    /\ \E i, j \in Indices :
          /\ field[i].state = "Disappearing" /\ field[i].counter = DISAPPEAR_BLINK_COUNT
          /\ field[j].state = "Disappearing" /\ field[j].counter = DISAPPEAR_BLINK_COUNT
          /\ field[i].sequence # field[j].sequence
          /\ i \in RunIndices(field[j].sequence)

(***************************************************************************)
(* C3                                                                      *)
(***************************************************************************)
\* the sequences found with the filter "length >= k" are the maximal runs of at
\* least k cells, each once
C3Detected(f, k) ==
    LET result == get_coordinates_of_sequences(f, k)
    IN /\ \A a, b \in 1 .. Len(result) :
              a # b => result[a].coordinates # result[b].coordinates
       /\ {result[a].coordinates : a \in 1 .. Len(result)} = MaximalRuns(f, k)

\* C3: on a field whose blocks are all Stationary, detection with the filter
\* "length >= k", k >= 2, returns every maximal same-colour run of at least k
\* cells along the four axes exactly once, listed from its negative end, and
\* nothing else; the empty field yields no run.
C3_EachMaximalRunOnce ==
    AllSettled(field) => \A k \in 2 .. MaxRun : C3Detected(field, k)

\* detection has run on a settled field with a run of three and further runs
\* of two, where a reverse or partial report would show
C3_Witness ==
    /\ AllSettled(field)
    /\ MaximalRuns(field, MINIMUM_SEQUENCE) # {}
    /\ Len(get_coordinates_of_sequences(field, 2)) >= 3
    /\ \E run \in MaximalRuns(field, 2) : run[2][1] < run[1][1]

(***************************************************************************)
(* C4                                                                      *)
(***************************************************************************)
\* a disappearing block with counter 0 lies below the cell i in its column
C4ClearedBelow(f, i) ==
    \E j \in Indices :
        /\ XOf(j) = XOf(i)
        /\ YOf(j) > YOf(i)
        /\ f[j].state = "Disappearing"
        /\ f[j].counter = 0

\* the cell i after the disappearing step on the field f
C4After(f, i) ==
    IF f[i].state = "Disappearing"
    THEN IF f[i].counter > 0 THEN [f[i] EXCEPT !.counter = @ - 1] ELSE Background
    ELSE IF as_block(f[i]) /\ C4ClearedBelow(f, i) THEN Block(f[i].color, "Gravity")
    ELSE f[i]

\* C4: the disappearing step lowers the counter of a disappearing block by one
\* if it is above 0 and changes nothing else of it; at counter 0 it empties the
\* cell and turns every block above it in the column that is not disappearing
\* into a falling block of the same colour in the same cell; the cells of other
\* columns and the cells below are unchanged.
C4_DisappearingStep ==
    [][(Tick /\ game_state = "Play" /\ HasDisappearing(field))
          => \A i \in Indices : field'[i] = C4After(field, i)]_vars

\* the step has removed a block: a falling block hangs over an empty cell
\* next to a settled block that stayed as it was
C4_Witness ==
    /\ ~ HasDisappearing(field)
    /\ \E i \in Indices :
          /\ field[i].state = "Gravity"
          /\ YOf(i) < FIELD_HEIGHT_BLOCKS - 1
          /\ is_background(field[i + FIELD_WIDTH_BLOCKS])
    /\ \E j \in Indices : field[j].state = "Stationary"

(***************************************************************************)
(* C5                                                                      *)
(***************************************************************************)
\* the blocks of the given phase that settle, found from the bottom row upward:
\* on the floor, on a settled or disappearing block, or on a block that settles
LandingCells(f, phase) ==
    LET L[n \in 0 .. FIELD_BLOCK_COUNT] ==
            IF n = 0 THEN {}
            ELSE LET i == FIELD_BLOCK_COUNT - n
                 IN IF /\ f[i].state = phase
                       /\ \/ YOf(i) = FIELD_HEIGHT_BLOCKS - 1
                          \/ is_stationary_block(f[i + FIELD_WIDTH_BLOCKS])
                          \/ (i + FIELD_WIDTH_BLOCKS) \in L[n - 1]
                    THEN L[n - 1] \cup {i}
                    ELSE L[n - 1]
    IN L[FIELD_BLOCK_COUNT]

\* the cell i after the blocks of the given phase have settled or moved down
AfterDescent(f, i, phase) ==
    LET lands == LandingCells(f, phase)
        moves(j) == f[j].state = phase /\ j \notin lands
    IN IF i \in lands THEN Block(f[i].color, "Stationary")
       ELSE IF YOf(i) > 0 /\ moves(i - FIELD_WIDTH_BLOCKS) THEN f[i - FIELD_WIDTH_BLOCKS]
       ELSE IF moves(i) THEN Background
       ELSE f[i]

\* C5: the gravity step takes the falling blocks from the bottom row upward; a
\* falling block on the bottom row or right above a settled or disappearing
\* block settles in its cell, every other falling block moves one row down,
\* leaves its cell empty and stays a falling block of its colour.
C5_GravityStep ==
    [][(Tick /\ game_state = "Play" /\ ~ HasDisappearing(field) /\ HasFalling(field))
          => \A i \in Indices : field'[i] = AfterDescent(field, i, "Gravity")]_vars

\* the step has moved a block: a falling block has arrived on the floor or on
\* a settled block
C5_Witness ==
    /\ ~ HasDisappearing(field)
    /\ \E i \in Indices :
          /\ field[i].state = "Gravity"
          /\ \/ YOf(i) = FIELD_HEIGHT_BLOCKS - 1
             \/ is_stationary_block(field[i + FIELD_WIDTH_BLOCKS])

(***************************************************************************)
(* C6                                                                      *)
(***************************************************************************)
\* a tick in Play with no disappearing and no falling block
C6FallTick ==
    /\ Tick
    /\ game_state = "Play"
    /\ ~ HasDisappearing(field)
    /\ ~ HasFalling(field)

\* below the limit the tick only counts
C6Waits == field' = field /\ block_fall_counter' = block_fall_counter + 1

\* every descending block settles in its cell or moves one row down
C6Descends ==
    \A i \in Indices :
        field[i].state = "Descending"
            => IF i \in LandingCells(field, "Descending")
               THEN field'[i] = Block(field[i].color, "Stationary")
               ELSE field'[i + FIELD_WIDTH_BLOCKS] = field[i]

\* the tick at the limit finds a run to score
C6Scores == ~ HasDescending(field) /\ MaximalRuns(field, MINIMUM_SEQUENCE) # {}

\* C6 as stated: below the fall limit the field is unchanged and the counter
\* goes up by one; at the limit the counter restarts and every descending block
\* settles or moves one row down.
C6_CounterRestartsAtLimit ==
    [][C6FallTick
          => IF block_fall_counter < block_fall_limit
             THEN C6Waits
             ELSE block_fall_counter' \in {0, 1} /\ C6Descends]_vars

\* C6, amended: below the fall limit the field is unchanged and the counter goes
\* up by one; at the limit every descending block, taken from the bottom row
\* upward, settles in its cell or moves one row down, and the counter restarts
\* at 1, unless the tick scores a run: then the counter is left at the limit.
C6_CounterRestartsUnlessScoring ==
    [][C6FallTick
          => IF block_fall_counter < block_fall_limit
             THEN C6Waits
             ELSE /\ C6Descends
                  /\ HasDescending(field)
                        => \A i \in Indices : field'[i] = AfterDescent(field, i, "Descending")
                  /\ block_fall_counter' = IF C6Scores THEN block_fall_limit' ELSE 1]_vars

\* the descent has acted: the triplet is one row below the rows it was spawned
\* in, the counter has restarted
C6_Witness ==
    /\ game_state = "Play"
    /\ block_fall_counter = 1
    /\ \E i \in Indices : field[i].state = "Descending" /\ YOf(i) = 3

(***************************************************************************)
(* C7                                                                      *)
(***************************************************************************)
\* every block lies on the floor or on another block
NoGaps(f) ==
    \A i \in Indices :
        as_block(f[i])
            => YOf(i) = FIELD_HEIGHT_BLOCKS - 1 \/ as_block(f[i + FIELD_WIDTH_BLOCKS])

\* the number of blocks on the field
Occupied(f) == Cardinality({i \in Indices : as_block(f[i])})

\* a cascade is under way
C7InCascade(f) == HasDisappearing(f) \/ HasFalling(f)

\* what a tick adds to the score: the runs of a scoring pass, else nothing
C7Gain ==
    IF ScoringDue THEN RunScore(MaximalRuns(field, MINIMUM_SEQUENCE)) ELSE 0

\* C7: from a state in Play with disappearing or falling blocks, as ticks go
\* on, a state with no disappearing and no falling block is reached; when the
\* cascade comes to rest every block lies on the floor or on another block; and
\* the score grows only in the passes of the cascade, in each by the sum of
\* (length - 2) over the runs of that pass.
C7_CascadeComesToRest ==
    /\ (game_state = "Play" /\ C7InCascade(field)) ~> ~ C7InCascade(field)
    /\ [][(C7InCascade(field) /\ ~ C7InCascade(field')) => NoGaps(field')]_vars
    /\ [][score' = score + C7Gain]_vars

\* the second pass of a cascade is under way: the first pass has scored and
\* cleared its run of three, the run the fallen blocks make is scored as well
C7_Witness ==
    /\ game_state = "Play"
    /\ score = 2
    /\ Occupied(field) = 3
    /\ \A i \in Indices : as_block(field[i]) => field[i].state = "Disappearing"

(***************************************************************************)
(* C8                                                                      *)
(***************************************************************************)
\* the three cells the new block is put in
SpawnCells == {Idx(NEW_BLOCK_COLUMN, y) : y \in 0 .. 2}

\* rows 0, 1 and 2 of the spawn column are empty
SpawnColumnFree(f) == \A i \in SpawnCells : f[i].state = "Background"

\* the field g is the field f with a new descending block in the spawn cells
C8Spawned(f, g) ==
    /\ \A i \in SpawnCells : g[i].state = "Descending" /\ g[i].color \in Colors
    /\ \A i \in Indices \ SpawnCells : g[i] = f[i]

\* the statistics t are the statistics s with one more for each cell of the new block
C8Counted(s, t, g) ==
    \A c \in Colors :
        t[c] = s[c] + Cardinality({i \in SpawnCells : g[i].color = c})

\* what make_new_descending_block makes of the field and the statistics
C8Made(f, stats, made) ==
    /\ made.ok = SpawnColumnFree(f)
    /\ made.ok => C8Spawned(f, made.field) /\ C8Counted(stats, made.color_stats, made.field)
    /\ ~ made.ok => made.field = f /\ made.color_stats = stats

\* the tick makes a new block: Play, every block settled, limit reached, no run
C8SpawnDue == ScoringDue /\ MaximalRuns(field, MINIMUM_SEQUENCE) = {}

\* C8: the spawn succeeds exactly if rows 0, 1 and 2 of the spawn column are
\* empty; then these three cells become descending blocks with colours of the
\* palette, the statistics grow by one for each sampled colour, three in all,
\* and no other cell changes; else it fails and leaves the field and the
\* statistics as they are.
C8_SpawnNeedsThreeFreeCells ==
    /\ [](\A color0, color1, color2 \in Colors :
             C8Made(field, color_stats,
                    make_new_descending_block(field, color_stats, color0, color1, color2)))
    /\ [][(Tick /\ C8SpawnDue)
             => IF SpawnColumnFree(field)
                THEN /\ C8Spawned(field, field')
                     /\ C8Counted(color_stats, color_stats', field')
                     /\ StatsTotal(color_stats') = StatsTotal(color_stats) + 3
                     /\ game_state' = "Play"
                ELSE /\ field' = field
                     /\ color_stats' = color_stats
                     /\ game_state' = "Over"]_vars

\* the spawn has acted: the new block stands in the spawn cells and is counted
C8_Witness ==
    /\ \A i \in SpawnCells : field[i].state = "Descending"
    /\ StatsTotal(color_stats) = 3
    /\ block_fall_counter = 1

(***************************************************************************)
(* C9                                                                      *)
(***************************************************************************)
\* a tick or a key other than the restart
C9TickOrOtherKey == Tick \/ KeyLeft \/ KeyRight \/ KeyUp \/ KeyDown \/ KeyF3

\* C9: the game becomes Over only in a tick that is to make a new block (every
\* block settled, no run to score) while the spawn column is blocked; in Over
\* the ticks, the shift, rotate and drop keys and the pause key leave the field,
\* the score and the game state as they are, and only the restart leaves Over.
C9_OverIsTerminal ==
    /\ [][(game_state # "Over" /\ game_state' = "Over")
             => /\ Tick
                /\ C8SpawnDue
                /\ ~ SpawnColumnFree(field)]_vars
    /\ [][(game_state = "Over" /\ C9TickOrOtherKey)
             => UNCHANGED <<field, score, game_state>>]_vars
    /\ [][(game_state = "Over" /\ game_state' # "Over") => KeyF2]_vars

\* the game is over: the landed block fills the spawn column, nothing is
\* left to score, and the keys and the restart are at hand
C9_Witness ==
    /\ game_state = "Over"
    /\ AllSettled(field)
    /\ ~ SpawnColumnFree(field)
    /\ ENABLED <<KeyF2>>_vars

(***************************************************************************)
(* C10                                                                     *)
(***************************************************************************)
\* the state of a new game
C10NewGame ==
    /\ \A i \in Indices : field[i] = Background
    /\ \A c \in Colors : color_stats[c] = 0
    /\ score = 0
    /\ block_fall_limit = DEFAULT_BLOCK_FALL_LIMIT
    /\ game_state = "Play"

\* C10: the restart, in Play, Pause or Over and with any field, gives an empty
\* field, statistics of 0 for every colour, score 0, the default fall limit and
\* the game state Play.
C10_RestartGivesNewGame == [][KeyF2 => C10NewGame']_vars

\* a restart is at hand in a paused game with blocks on the field and a score
C10_Witness ==
    /\ game_state = "Pause"
    /\ score > 0
    /\ Occupied(field) > 0
    /\ ENABLED <<KeyF2>>_vars

(***************************************************************************)
(* C11                                                                     *)
(***************************************************************************)
\* the cells of the descending blocks
DescendingCells(f) == {i \in Indices : f[i].state = "Descending"}

\* every descending block has an empty cell of the field dx columns beside it
CanShift(f, dx) ==
    \A i \in DescendingCells(f) :
        InField(XOf(i) + dx, YOf(i)) /\ f[i + dx].state = "Background"

\* the field with every descending block dx columns further, or the field as
\* it is if one of them cannot go there
Shifted(f, dx) ==
    IF CanShift(f, dx)
    THEN [i \in Indices |->
            IF i \in DescendingCells(f) THEN Background
            ELSE IF InField(XOf(i) - dx, YOf(i)) /\ (i - dx) \in DescendingCells(f)
                 THEN f[i - dx]
                 ELSE f[i]]
    ELSE f

\* C11: a shift to the left (right) moves every descending block one column to
\* the left (right), with its row, colour and phase, exactly if every
\* descending block has an empty cell of the field on that side; else, at the
\* wall or beside a block that is not descending, the field stays as it is; a
\* part of the descending blocks is never moved alone.
C11_ShiftIsAllOrNothing ==
    /\ [](/\ move_descending_blocks_left(field) = Shifted(field, -1)
          /\ move_descending_blocks_right(field) = Shifted(field, 1))
    /\ [][(KeyLeft /\ game_state = "Play") => field' = Shifted(field, -1)]_vars
    /\ [][(KeyRight /\ game_state = "Play") => field' = Shifted(field, 1)]_vars

\* a shift has moved the descending blocks to the left wall, where the next
\* shift to the left is refused by the wall and the shift to the right by a
\* settled block beside them
C11_Witness ==
    /\ game_state = "Play"
    /\ DescendingCells(field) # {}
    /\ \A i \in DescendingCells(field) : XOf(i) = 0
    /\ \E i \in DescendingCells(field) : field[i + 1].state = "Stationary"

(***************************************************************************)
(* C12: rotation of the descending blocks                                  *)
(***************************************************************************)
\* the position of a descending cell in the ring, counted from the top
RingRank(f, i) == Cardinality({j \in DescendingCells(f) : j < i})

RingCell(f, r) == CHOOSE i \in DescendingCells(f) : RingRank(f, i) = r

\* every descending cell takes the colour of the cell s places further down
\* the ring (the ring closes from the bottom to the top); nothing else changes
RingShift(f, s) ==
    LET n == Cardinality(DescendingCells(f))
    IN [i \in Indices |->
           IF i \in DescendingCells(f)
           THEN [f[i] EXCEPT !.color = f[RingCell(f, (RingRank(f, i) + s) % n)].color]
           ELSE f[i]]

\* C12 as stated: one rotate moves the top colour to the bottom, (a, b, c) from
\* top to bottom becomes (b, c, a); phases, positions and all other cells stay
C12_RotateMovesTopToBottom ==
    [][(KeyUp /\ game_state = "Play") => field' = RingShift(field, 1)]_vars

\* C12 amended: one rotate moves the bottom colour to the top, (a, b, c) from
\* top to bottom becomes (c, a, b); phases, positions and all other cells stay.
\* The key handler and Field::rotate_descending_blocks agree on it.
C12_RotateMovesBottomToTop ==
    /\ [](rotate_descending_blocks(field)
            = RingShift(field, Cardinality(DescendingCells(field)) - 1))
    /\ [][(KeyUp /\ game_state = "Play")
            => field' = RingShift(field, Cardinality(DescendingCells(field)) - 1)]_vars

\* a whole triplet in the spawn cells whose colours are (1, 0, 0) from the top:
\* a triplet is spawned with the colours in order of first appearance, so
\* this one has been rotated from (0, 0, 1)
C12_Witness ==
    /\ game_state = "Play"
    /\ DescendingCells(field) = {Idx(NEW_BLOCK_COLUMN, y) : y \in 0 .. 2}
    /\ field[Idx(NEW_BLOCK_COLUMN, 0)].color = 1
    /\ field[Idx(NEW_BLOCK_COLUMN, 1)].color = 0
    /\ field[Idx(NEW_BLOCK_COLUMN, 2)].color = 0

(***************************************************************************)
(* C13: the advisor's rotation and the live rotation                       *)
(***************************************************************************)
\* the field after k presses of the rotate key
RotatedByKey(f, k) ==
    LET r[j \in 0 .. k] == IF j = 0 THEN f ELSE cycle_colors(r[j - 1])
    IN r[k]

RotateCounts == 0 .. 2

\* C13: on every field with descending blocks, the advisor's rotation by k is
\* the field after k presses of the rotate key, for k = 0, 1, 2; and a press of
\* the rotate key uses up one of the rotations the advisor counted
C13_AdvisorRotatesAsTheKey ==
    /\ [](\A k \in RotateCounts :
            ai_rotate_descending_blocks(field, k) = RotatedByKey(field, k))
    /\ [][(KeyUp /\ game_state = "Play")
            => \A k \in RotateCounts \ {0} :
                   ai_rotate_descending_blocks(field, k)
                       = ai_rotate_descending_blocks(field', k - 1)]_vars

\* a whole triplet whose three rotations are three different fields
C13_Witness ==
    /\ game_state = "Play"
    /\ Cardinality(DescendingCells(field)) = 3
    /\ ai_rotate_descending_blocks(field, 1) # field
    /\ ai_rotate_descending_blocks(field, 2) # field
    /\ ai_rotate_descending_blocks(field, 2) # ai_rotate_descending_blocks(field, 1)

(***************************************************************************)
(* C14: handing the descending blocks over to gravity                      *)
(***************************************************************************)
\* the field with every Descending block Falling and nothing else changed
ToFalling(f) ==
    [i \in Indices |-> IF f[i].state = "Descending"
                       THEN [f[i] EXCEPT !.state = "Gravity"] ELSE f[i]]

\* C14: the drop key turns every Descending block into a Falling one and
\* changes nothing else; Field::hand_descending_blocks_to_gravity does the same;
\* while no block is Descending, the shift and rotate keys leave the field as it
\* is; and a Descending block appears only when the tick makes a new block
C14_DropHandsOverToGravity ==
    /\ [][(KeyDown /\ game_state = "Play")
            => /\ field' = ToFalling(field)
               /\ UNCHANGED <<game_state, score, color_stats,
                              block_fall_counter, block_fall_limit>>]_vars
    /\ [](hand_descending_blocks_to_gravity(field) = ToFalling(field))
    /\ [][((KeyLeft \/ KeyRight \/ KeyUp) /\ ~ HasDescending(field))
            => field' = field]_vars
    /\ [][(~ HasDescending(field) /\ HasDescending(field'))
            => TickFall /\ C8Spawned(field, field')]_vars

\* blocks are Falling before anything has been scored: they have been dropped
C14_Witness ==
    /\ game_state = "Play"
    /\ score = 0
    /\ HasFalling(field)
    /\ ~ HasDescending(field)
    /\ \E i \in Indices : field[i].state = "Gravity" /\ XOf(i) # NEW_BLOCK_COLUMN

(***************************************************************************)
(* C15: a dropped triplet of one colour, from the empty field to the       *)
(* empty field                                                             *)
(***************************************************************************)
\* the three lowest cells of the spawn column
RestCells == {Idx(NEW_BLOCK_COLUMN, y) :
                 y \in (FIELD_HEIGHT_BLOCKS - 3) .. (FIELD_HEIGHT_BLOCKS - 1)}

\* the field holds blocks exactly in the cells S, all of colour 0 and in state st
OnlyTriplet(f, S, st) ==
    /\ \A i \in S : f[i].state = st /\ f[i].color = 0
    /\ \A i \in Indices \ S : f[i] = Background

\* a triplet of colour 0 has been dropped in the spawn column of the empty field
C15Dropped ==
    /\ game_state = "Play"
    /\ score = 0
    /\ \E y \in 0 .. (FIELD_HEIGHT_BLOCKS - 3) :
           OnlyTriplet(field, {Idx(NEW_BLOCK_COLUMN, y + d) : d \in 0 .. 2}, "Gravity")

C15Landed == game_state = "Play" /\ score = 0 /\ OnlyTriplet(field, RestCells, "Stationary")

C15Marked == game_state = "Play" /\ score = 1 /\ OnlyTriplet(field, RestCells, "Disappearing")

C15Cleared == score = 1 /\ field = FieldNew

\* the vertical run of the three lowest cells of the spawn column
C15Run ==
    Sequence([k \in 1 .. 3 |-> <<NEW_BLOCK_COLUMN, FIELD_HEIGHT_BLOCKS - 4 + k>>],
             FIELD_HEIGHT_BLOCKS > 3)

\* C15: a triplet of colour 0 dropped in the spawn column of the empty field
\* comes to rest in the three lowest cells of that column; there it is found as
\* exactly one run, and the next change makes the score 1 and the three cells
\* Disappearing; they stay so until the field is empty, with the score still 1
C15_DroppedTripletScoresOneAndClears ==
    /\ C15Dropped ~> C15Landed
    /\ [](C15Landed => get_coordinates_of_sequences(field, MINIMUM_SEQUENCE) = <<C15Run>>)
    /\ C15Landed ~> C15Marked
    /\ [][C15Landed => (C15Landed' \/ C15Marked')]_vars
    /\ C15Marked ~> C15Cleared
    /\ [][C15Marked => (C15Marked' \/ C15Cleared')]_vars

\* the empty field with score 1, in a game of a single block
C15_Witness == C15Cleared /\ StatsTotal(color_stats) = 3 /\ color_stats[0] = 3

(***************************************************************************)
(* C16: the number of countdown ticks from marking to removal              *)
(***************************************************************************)
DisappearingCells(f) == {i \in Indices : f[i].state = "Disappearing"}

\* a block that becomes Disappearing starts with the counter at the blink count
C16Marked ==
    \A i \in DisappearingCells(field') \ DisappearingCells(field) :
        field'[i].counter = DISAPPEAR_BLINK_COUNT

\* every tick in Play that finds a Disappearing block is a countdown tick, and
\* nothing but a countdown tick changes a Disappearing block
C16EveryTickCounts ==
    /\ (Tick /\ game_state = "Play" /\ HasDisappearing(field)) => TickDisappearing
    /\ (\E i \in DisappearingCells(field) : field'[i] # field[i]) => TickDisappearing

\* a countdown tick lowers every counter above `last` by one and empties the
\* cells whose counter is at most `last`
C16CountedDown(last) ==
    \A i \in DisappearingCells(field) :
        IF field[i].counter > last
        THEN field'[i] = [field[i] EXCEPT !.counter = @ - 1]
        ELSE field'[i] = Background

\* C16 as stated: the cell is empty at the end of the countdown tick number
\* DISAPPEAR_BLINK_COUNT after the marking, which is the tick that finds the
\* counter at 1
C16_ClearedByTheLastCount ==
    [][/\ C16Marked
       /\ C16EveryTickCounts
       /\ TickDisappearing => C16CountedDown(1)]_vars

\* C16 amended: the countdown ticks number 1 to DISAPPEAR_BLINK_COUNT after
\* the marking lower the counter to 0, and the cell is empty at the end of the
\* next one, the tick that finds the counter at 0;
\* Field::reduce_disappearing_blocks counts the same way; every Disappearing
\* block is removed in the end
C16_ClearedByTheTickAfterTheLastCount ==
    /\ [][/\ C16Marked
           /\ C16EveryTickCounts
           /\ TickDisappearing => C16CountedDown(0)]_vars
    /\ [](\A i \in DisappearingCells(field) :
            /\ field[i].counter \in 0 .. DISAPPEAR_BLINK_COUNT
            /\ reduce_disappearing_blocks(field)[i]
                   = IF field[i].counter > 0
                     THEN [field[i] EXCEPT !.counter = @ - 1] ELSE Background)
    /\ HasDisappearing(field) ~> ~ HasDisappearing(field)

\* all blocks of a run have counted down to 0 and are still on the field
C16_Witness ==
    /\ game_state = "Play"
    /\ DisappearingCells(field) # {}
    /\ \A i \in DisappearingCells(field) : field[i].counter = 0

(***************************************************************************)
(* C17: the speed-up                                                       *)
(***************************************************************************)
\* the tick scores: Play, every block settled, limit reached, a run on the field
C17ScoringEvent == Tick /\ ScoringDue /\ MaximalRuns(field, MINIMUM_SEQUENCE) # {}

\* the score has passed a multiple of the divisor
C17Passed == (score' \div SCORE_SPEEDUP_DIVISOR) > (score \div SCORE_SPEEDUP_DIVISOR)

\* C17: a scoring event lowers the fall limit by exactly 1 if the score passes
\* a multiple of SCORE_SPEEDUP_DIVISOR and the limit is above 1, and leaves it
\* as it is otherwise; the only other step that changes the limit is the
\* restart, which sets the default
C17_SpeedUp ==
    /\ [][C17ScoringEvent
            => /\ score' > score
               /\ block_fall_limit' = IF C17Passed /\ block_fall_limit > 1
                                      THEN block_fall_limit - 1
                                      ELSE block_fall_limit]_vars
    /\ [][block_fall_limit' # block_fall_limit
            => \/ C17ScoringEvent
               \/ KeyF2 /\ block_fall_limit' = DEFAULT_BLOCK_FALL_LIMIT]_vars
    /\ [](block_fall_limit \in 1 .. DEFAULT_BLOCK_FALL_LIMIT)

\* the score has just passed the first multiple and the limit is one lower
C17_Witness ==
    /\ game_state = "Play"
    /\ HasDisappearing(field)
    /\ score \div SCORE_SPEEDUP_DIVISOR = 1
    /\ score % SCORE_SPEEDUP_DIVISOR < 2
    /\ block_fall_limit = DEFAULT_BLOCK_FALL_LIMIT - 1

(***************************************************************************)
(* C18: the coordinate iterator                                            *)
(***************************************************************************)
\* the coordinates of cell i of a grid of width w
CellCoords(i, w) == <<i % w, i \div w>>

Reversed(q) == [k \in 1 .. Len(q) |-> q[Len(q) + 1 - k]]

\* the iterator has nothing left
C18Exhausted == Len(yielded.front) + Len(yielded.back) = yielded.cells

\* what has been yielded: from the front the cells 0, 1, ... in ascending order,
\* from the back the cells L - 1, L - 2, ... in descending order, no cell from
\* both ends; with nothing left, the front followed by the back read backwards
\* is every cell of the grid once, in ascending order
C18YieldedInOrder ==
    /\ yielded.front = [k \in 1 .. Len(yielded.front) |-> CellCoords(k - 1, fc.field_width)]
    /\ yielded.back = [k \in 1 .. Len(yielded.back) |->
                          CellCoords(yielded.cells - k, fc.field_width)]
    /\ Len(yielded.front) + Len(yielded.back) <= yielded.cells
    /\ C18Exhausted
          => yielded.front \o Reversed(yielded.back)
                = [k \in 1 .. yielded.cells |-> CellCoords(k - 1, fc.field_width)]
    /\ Len(yielded.front) = yielded.cells
          => Reversed(yielded.front)
                = [k \in 1 .. yielded.cells |-> CellCoords(yielded.cells - k, fc.field_width)]

\* C18: the iterator yields (i mod w, i div w) for ascending i from the front
\* and for descending i from the back, each cell of the grid exactly once
\* whatever the order of the calls; a call yields a coordinate as long as a cell
\* is left, and none, changing nothing, ever after
C18_EachCoordinateOnce ==
    /\ [](C18YieldedInOrder)
    /\ [][(CoordsNext \/ CoordsNextBack)
            => IF C18Exhausted
               THEN yielded'.last = <<>> /\ fc' = fc
                    /\ yielded'.front = yielded.front /\ yielded'.back = yielded.back
               ELSE Len(yielded'.last) = 1
                    /\ Len(yielded'.front) + Len(yielded'.back)
                          = Len(yielded.front) + Len(yielded.back) + 1]_vars

\* the whole-field iterator, emptied from both ends in turn, has just said none
C18_Witness ==
    /\ yielded.cells = FIELD_BLOCK_COUNT
    /\ fc.field_width = FIELD_WIDTH_BLOCKS
    /\ C18Exhausted
    /\ Len(yielded.front) > 1
    /\ Len(yielded.back) > 1
    /\ yielded.last = <<>>

C20Legal(f, column) ==
    \A i \in DescendingCells(f) :
        \/ f[Idx(column, YOf(i))].state = "Background"
        \/ Idx(column, YOf(i)) \in DescendingCells(f)

\* C20: the advisor rates every column that is legal, for every rotation
\* count; so with a Descending block on the field it returns a move, and if only
\* one column is legal it returns that column
C20_LegalColumnsAreRated ==
    HasDescending(field)
       => \A desc_blocks \in {block_coords_with_predicate(field, {"Descending"})},
             best \in {pick_best_move(field)} :
             /\ \A column \in 0 .. (FIELD_WIDTH_BLOCKS - 1),
                   rotate_count \in 0 .. (Len(desc_blocks) - 1) :
                    C20Legal(field, column)
                       => rated_move(field, desc_blocks, rotate_count, column) # <<>>
             /\ best # <<>>
             /\ \A column \in 0 .. (FIELD_WIDTH_BLOCKS - 1) :
                    (\A other \in 0 .. (FIELD_WIDTH_BLOCKS - 1) :
                        C20Legal(field, other) <=> other = column)
                       => best[1].column = column

(***************************************************************************)
(* C21: the advisor's choice among equally rated placements                *)
(***************************************************************************)
\* the placements the advisor rates on the field f, each with its rating
RatedMoves(f) ==
    LET desc_blocks == block_coords_with_predicate(f, {"Descending"})
    IN UNION {{m[k] : k \in 1 .. Len(m)} :
                m \in {rated_move(f, desc_blocks, rotate_count, column) :
                          rotate_count \in 0 .. (Len(desc_blocks) - 1),
                          column \in 0 .. (FIELD_WIDTH_BLOCKS - 1)}}

\* the placement m comes before the placement n in the order of the loops:
\* rotation counts ascending, columns ascending within a rotation count
EnumeratedBefore(m, n) ==
    \/ m.rotate_count < n.rotate_count
    \/ m.rotate_count = n.rotate_count /\ m.column < n.column

\* the placements of the set rated that have the highest rating
BestRated(rated) == {m \in rated : \A n \in rated : n.rating <= m.rating}

\* the move `best` is one of the set S of rated placements
C21Returned(best, S) ==
    \E m \in S : m.column = best[1].column /\ m.rotate_count = best[1].rotate_count

\* C21 as stated: of the placements with the highest rating the advisor returns
\* the first in the order of enumeration
C21_FirstOfTheBest ==
    HasDescending(field)
       => \A best \in {pick_best_move(field)}, top \in {BestRated(RatedMoves(field))} :
             best # <<>>
                => C21Returned(best, {m \in top : \A n \in top \ {m} : EnumeratedBefore(m, n)})

\* C21 amended: of the placements with the highest rating the advisor returns
\* the last in the order of enumeration
C21_LastOfTheBest ==
    HasDescending(field)
       => \A best \in {pick_best_move(field)}, top \in {BestRated(RatedMoves(field))} :
             /\ best = <<>> <=> top = {}
             /\ best # <<>>
                  => C21Returned(best, {m \in top : \A n \in top \ {m} : EnumeratedBefore(n, m)})

\* more than one placement has the highest rating
C21_Witness ==
    /\ HasDescending(field)
    /\ Cardinality(BestRated(RatedMoves(field))) > 2
    /\ \E m, n \in BestRated(RatedMoves(field)) :
          m.rotate_count # n.rotate_count /\ m.column # n.column

(***************************************************************************)
(* C22: the order by which the advisor chooses                             *)
(***************************************************************************)
\* the field after the descending blocks of f were rotated rotate_count times,
\* moved to the column and dropped
Placed(f, rotate_count, column) ==
    LET desc_blocks == block_coords_with_predicate(f, {"Descending"})
        g[k \in 0 .. Len(desc_blocks)] ==
            IF k = 0 THEN ai_rotate_descending_blocks(f, rotate_count)
            ELSE Only({swap_blocks(prev, desc_blocks[k][1], desc_blocks[k][2],
                                   column, desc_blocks[k][2]) : prev \in {g[k - 1]}})
    IN drop_descending_blocks(g[Len(desc_blocks)])

\* a run is extensible: the cell before its first cell or the cell after its
\* last cell, along its axis, is on the field and empty
Extensible(f, run) ==
    LET n == Len(run)
        dx == IF n > 1 THEN run[2][1] - run[1][1] ELSE 0
        dy == IF n > 1 THEN run[2][2] - run[1][2] ELSE 0
        EmptyAt(x, y) == InField(x, y) /\ f[Idx(x, y)].state = "Background"
    IN \/ EmptyAt(run[1][1] - dx, run[1][2] - dy)
       \/ EmptyAt(run[n][1] + dx, run[n][2] + dy)

\* the sum of the lengths of a set of runs
RECURSIVE RunLengths(_)
RunLengths(runs) ==
    IF runs = {} THEN 0
    ELSE LET r == CHOOSE r \in runs : TRUE
         IN Len(r) + RunLengths(runs \ {r})

\* the height of the highest column
TallestColumn(f) ==
    CHOOSE h \in 0 .. FIELD_HEIGHT_BLOCKS :
        /\ \E x \in 0 .. (FIELD_WIDTH_BLOCKS - 1) : tower_height(f, x) = h
        /\ \A x \in 0 .. (FIELD_WIDTH_BLOCKS - 1) : tower_height(f, x) <= h

\* the field without the cells of the runs, every column dropped to rest
ClearedAndDropped(f, runs) ==
    LET gone == UNION {RunIndices(r) : r \in runs}
        \* the blocks that stay in column x at or below row y
        Below(x, y) == Cardinality({z \in y .. (FIELD_HEIGHT_BLOCKS - 1) :
                                      as_block(f[Idx(x, z)]) /\ Idx(x, z) \notin gone})
    IN [i \in Indices |->
          LET sources == {z \in 0 .. (FIELD_HEIGHT_BLOCKS - 1) :
                            /\ as_block(f[Idx(XOf(i), z)])
                            /\ Idx(XOf(i), z) \notin gone
                            /\ Below(XOf(i), z) = FIELD_HEIGHT_BLOCKS - YOf(i)}
          IN IF sources = {} THEN Background
             ELSE f[Idx(XOf(i), CHOOSE z \in sources : TRUE)]]

\* detect the qualifying runs, remove them, drop everything to rest, until no
\* run qualifies: the score of all passes and the field that remains
RECURSIVE Cascade(_)
Cascade(f) ==
    LET runs == MaximalRuns(f, MINIMUM_SEQUENCE)
    IN IF runs = {} THEN [score |-> 0, field |-> f]
       ELSE LET rest == Cascade(ClearedAndDropped(f, runs))
            IN [score |-> RunScore(runs) + rest.score, field |-> rest.field]

\* the tuple of a placed field: score of the cascade, extensible runs of two
\* or more cells that remain, minus the height of the highest column
Tuple(placed) ==
    LET end == Cascade(placed)
    IN <<end.score,
         Cardinality({r \in MaximalRuns(end.field, 2) : Extensible(end.field, r)}),
         0 - TallestColumn(end.field)>>

LexGreater(s, t) ==
    \/ s[1] > t[1]
    \/ s[1] = t[1] /\ s[2] > t[2]
    \/ s[1] = t[1] /\ s[2] = t[2] /\ s[3] > t[3]

\* the weighted sum of a placed field: 3 per cell of a qualifying run, 1 per
\* cell of a shorter extensible run of two, -3 per row of the highest column
WeightedSum(placed) ==
    3 * RunLengths(MaximalRuns(placed, MINIMUM_SEQUENCE))
    + RunLengths({r \in MaximalRuns(placed, 2) :
                     Len(r) < MINIMUM_SEQUENCE /\ Extensible(placed, r)})
    - 3 * TallestColumn(placed)

\* the columns the advisor rates: empty in the row of every Descending block
RatedColumns(f) ==
    {column \in 0 .. (FIELD_WIDTH_BLOCKS - 1) :
        \A i \in DescendingCells(f) : f[Idx(column, YOf(i))].state = "Background"}

RotationCounts(f) == 0 .. (Cardinality(DescendingCells(f)) - 1)

EmptyAt(f, x, y) == InField(x, y) /\ f[Idx(x, y)].state = "Background"

\* the cell (x, y) is on the field and holds a block
OccupiedAt(f, x, y) == InField(x, y) /\ f[Idx(x, y)].state # "Background"

\* the run, walked along (dx, dy), has an empty cell before its first or
\* after its last cell
C23EmptyEnd(f, run, dx, dy) ==
    \/ EmptyAt(f, run[1][1] - dx, run[1][2] - dy)
    \/ EmptyAt(f, run[Len(run)][1] + dx, run[Len(run)][2] + dy)

\* the runs the last call of the detector returned, each with its direction:
\* the direction of the call of find_sequence, or the step from the first to
\* the second cell of a run of get_coordinates_of_sequences
C23Runs ==
    {[run |-> found.sequences[k].coordinates, extensible |-> found.sequences[k].extensible,
      dx |-> IF Len(found.call) = 4 THEN found.call[3]
             ELSE found.sequences[k].coordinates[2][1] - found.sequences[k].coordinates[1][1],
      dy |-> IF Len(found.call) = 4 THEN found.call[4]
             ELSE found.sequences[k].coordinates[2][2] - found.sequences[k].coordinates[1][2]] :
        k \in {k \in 1 .. Len(found.sequences) :
                  Len(found.sequences[k].coordinates) >= (IF Len(found.call) = 4 THEN 1 ELSE 2)}}

C24Descended ==
    handle_descending_blocks(field, block_coords_with_predicate(field, {"Descending"}))

\* the step is a fall step whose descent lands the last descending block
C24Lands ==
    /\ game_state = "Play"
    /\ step_of_tick(field) = "fall"
    /\ block_fall_counter = block_fall_limit
    /\ DescendingCells(field) # {}
    /\ DescendingCells(C24Descended) = {}
    /\ field' = C24Descended \/ score' # score \/ game_state' # game_state
       \/ color_stats' # color_stats

\* the step has looked for sequences on the field f: it scored them, or made
\* a new block, or ended the game
C24Invoked(f) ==
    LET scored == handle_sequences(f, score)
    IN IF scored.found
       THEN field' = scored.field /\ score' = scored.score
       ELSE \/ \E color0, color1, color2 \in Colors :
                 LET made == make_new_descending_block(f, color_stats, color0, color1, color2)
                 IN made.ok /\ field' = made.field /\ color_stats' = made.color_stats
            \/ ~ has_space_for_new_block(f) /\ game_state' = "Over"

\* the step has scored, made a new block or ended the game
C24PolicyRan ==
    \/ score' # score
    \/ color_stats' # color_stats
    \/ game_state' # game_state
    \/ DisappearingCells(field') \ DisappearingCells(field) # {}

\* C24 as claimed: the fall step that lands the last descending block looks
\* for sequences in that same step: it scores them, or makes a new block or
\* ends the game.
C24_PolicyInTheLandingStep ==
    [][C24Lands => C24Invoked(C24Descended)]_vars

\* C24: the fall step that lands the last descending block only settles the
\* blocks and restarts the fall counter at 1; sequences are scored, a block
\* is made or the game ends only in a fall step that starts with the fall
\* counter at the limit and without a descending block, so a fall interval
\* after the landing.
C24_PolicyInTheNextFallStep ==
    [][/\ C24Lands => /\ field' = C24Descended
                      /\ block_fall_counter' = 1
                      /\ ~ C24PolicyRan
       /\ C24PolicyRan => /\ DescendingCells(field) = {}
                          /\ block_fall_counter = block_fall_limit
                          /\ C24Invoked(field)]_vars

\* the triplet has just landed in a sequence of three and nothing is scored
C24_Witness ==
    /\ game_state = "Play"
    /\ \A i \in Indices : field[i].state \in {"Background", "Stationary"}
    /\ MaximalRuns(field, MINIMUM_SEQUENCE) # {}
    /\ score = 0
    /\ block_fall_counter = 1
    /\ block_fall_limit > 1

(***************************************************************************)
(* C25: the blocks of a run                                                *)
(***************************************************************************)
\* the runs get_coordinates_of_sequences returned
C25Returned == {found.sequences[k].coordinates : k \in 1 .. Len(found.sequences)}

\* C25: on every field, whatever the states of its blocks, the runs that
\* get_coordinates_of_sequences returns consist of Stationary blocks of one
\* colour only, and they are the maximal runs of Stationary blocks: the walk
\* stops at a block that is not Stationary, and a block that is not
\* Stationary before a Stationary block does not keep a run from starting.
C25_RunsOfStationaryBlocks ==
    Len(found.call) = 1 =>
        /\ \A run \in C25Returned : \A k \in 1 .. Len(run) :
               SettledAt(field, run[k][1], run[k][2], field[Idx(run[1][1], run[1][2])].color)
        /\ C25Returned = MaximalRuns(field, found.call[1])

(***************************************************************************)
(* C26: a disappearing block stays where it is until it is removed         *)
(***************************************************************************)
\* C26: a Disappearing block never becomes Stationary, Descending or pulled
\* by gravity, never moves and never changes its colour: after every step
\* its cell holds the same block, Disappearing, with the same counter or the
\* counter less one, or the cell is empty.
C26_DisappearingStaysOrGoes ==
    [][\A i \in DisappearingCells(field) :
          \/ field'[i] = Background
          \/ /\ field'[i].state = "Disappearing"
             /\ field'[i].color = field[i].color
             /\ field'[i].sequence = field[i].sequence
             /\ field'[i].counter \in {field[i].counter, field[i].counter - 1}]_vars

\* a Disappearing block that has been counted down to 0 lies under another
\* Disappearing block of its column
C26_Witness ==
    \E i \in DisappearingCells(field) :
        /\ field[i].counter = 0
        /\ i >= FIELD_WIDTH_BLOCKS
        /\ field[i - FIELD_WIDTH_BLOCKS].state = "Disappearing"

(***************************************************************************)
(* C27: the descending blocks are one triplet                              *)
(***************************************************************************)
\* the cells of the field that hold a block
BlockCells(f) == {i \in Indices : f[i].state # "Background"}

\* the three cells a new descending block is made in
C27NewCells == {Idx(NEW_BLOCK_COLUMN, y) : y \in 0 .. 2}

\* the descending blocks are three blocks in adjacent rows of one column
C27Triplet(f) ==
    \E x \in 0 .. (FIELD_WIDTH_BLOCKS - 1), y \in 0 .. (FIELD_HEIGHT_BLOCKS - 3) :
        DescendingCells(f) = {Idx(x, y), Idx(x, y + 1), Idx(x, y + 2)}

\* a step that makes a descending block where there was none starts without
\* descending blocks and fills the rows 0 to 2 of the middle column
C27Created ==
    (\E i \in Indices : field[i].state = "Background" /\ field'[i].state = "Descending"
                         /\ Cardinality(BlockCells(field')) > Cardinality(BlockCells(field)))
        => /\ DescendingCells(field) = {}
           /\ DescendingCells(field') = C27NewCells
           /\ BlockCells(field') = BlockCells(field) \cup C27NewCells
           /\ BlockCells(field) \cap C27NewCells = {}

\* C27: the number of Descending blocks is 0 or 3 in every reachable state;
\* three of them lie in three adjacent rows of one column; a triplet is made
\* only in the rows 0 to 2 of the column FIELD_WIDTH_BLOCKS / 2 and only
\* when there is no Descending block.
C27_OneTripletAtATime ==
    /\ [](DescendingCells(field) = {} \/ C27Triplet(field))
    /\ [][/\ C27Created
          /\ (DescendingCells(field) = {} /\ DescendingCells(field') # {})
                => Cardinality(BlockCells(field')) = Cardinality(BlockCells(field)) + 3]_vars

\* the triplet has been moved out of the column and the rows it was made in
C27_Witness ==
    /\ C27Triplet(field)
    /\ DescendingCells(field) \cap C27NewCells = {}
    /\ \A i \in DescendingCells(field) : i \div FIELD_WIDTH_BLOCKS > 0

(***************************************************************************)
(* C28: how a block comes to be pulled by gravity                          *)
(***************************************************************************)
GravityCells(f) == {i \in Indices : f[i].state = "Gravity"}

\* the step removes a Disappearing block below the cell i, in the column of i
C28ClearsBelow(i) ==
    \E j \in DisappearingCells(field) :
        /\ j % FIELD_WIDTH_BLOCKS = i % FIELD_WIDTH_BLOCKS
        /\ j > i
        /\ field[j].counter = 0
        /\ field'[j] = Background

\* C28: a Stationary block becomes pulled by gravity only in a countdown step
\* that removes a Disappearing block below it in its column; no Disappearing
\* block ever becomes pulled by gravity; a Descending block becomes pulled by
\* gravity only by the drop key, which hands over all Descending blocks and
\* changes nothing else; and an empty cell comes to hold a block pulled by
\* gravity only when that block falls into it from the cell above.
C28_PulledByClearOrDrop ==
    [][\A i \in GravityCells(field') \ GravityCells(field) :
          /\ field[i].state = "Stationary"
                => /\ C28ClearsBelow(i)
                   /\ DisappearingCells(field) # {}
                   /\ field'[i].color = field[i].color
          /\ field[i].state # "Disappearing"
          /\ field[i].state = "Descending"
                => /\ field' = ToFalling(field)
                   /\ DisappearingCells(field) = {}
          /\ field[i].state = "Background"
                => /\ i >= FIELD_WIDTH_BLOCKS
                   /\ field[i - FIELD_WIDTH_BLOCKS].state = "Gravity"
                   /\ field'[i] = field[i - FIELD_WIDTH_BLOCKS]]_vars

\* one or two blocks are pulled by gravity: blocks that lay on a sequence
\* that has been removed
C28_Witness ==
    /\ Cardinality(GravityCells(field)) \in {1, 2}
    /\ DescendingCells(field) = {}
    /\ \E i \in GravityCells(field) : field[i + FIELD_WIDTH_BLOCKS] = Background

(***************************************************************************)
(* C29: blocks never overlap and are never lost                            *)
(***************************************************************************)
\* every iteration of the loop of handle_gravity_blocks on the field f either
\* settles its block or moves it into the cell below, which is empty then
C29FallsIntoEmpty(f) ==
    LET coords == block_coords_with_predicate(f, {"Gravity"})
    IN \A k \in 1 .. Len(coords) :
          LET before == handle_gravity_blocks(f, SubSeq(coords, 1, k - 1))
              after == handle_gravity_blocks(f, SubSeq(coords, 1, k))
              x == coords[k][1]
              y == coords[k][2]
          IN \/ after = [before EXCEPT ![Idx(x, y)].state = "Stationary"]
             \/ /\ y + 1 < FIELD_HEIGHT_BLOCKS
                /\ before[Idx(x, y + 1)] = Background
                /\ after = [before EXCEPT ![Idx(x, y + 1)] = before[Idx(x, y)],
                                          ![Idx(x, y)] = Background]

\* the same for the loop of handle_descending_blocks
C29DescendsIntoEmpty(f) ==
    LET coords == block_coords_with_predicate(f, {"Descending"})
    IN \A k \in 1 .. Len(coords) :
          LET before == handle_descending_blocks(f, SubSeq(coords, 1, k - 1))
              after == handle_descending_blocks(f, SubSeq(coords, 1, k))
              x == coords[k][1]
              y == coords[k][2]
          IN \/ after = [before EXCEPT ![Idx(x, y)].state = "Stationary"]
             \/ /\ y + 1 < FIELD_HEIGHT_BLOCKS
                /\ before[Idx(x, y + 1)] = Background
                /\ after = [before EXCEPT ![Idx(x, y + 1)] = before[Idx(x, y)],
                                          ![Idx(x, y)] = Background]

\* the field after the first k descending blocks were copied dx columns aside
\* and their cells cleared
C29Shifting(f, dx, k) ==
    LET coords == block_coords_with_predicate(f, {"Descending"})
        g[j \in 0 .. k] ==
            IF j = 0 THEN f
            ELSE [g[j - 1] EXCEPT ![Idx(coords[j][1] + dx, coords[j][2])] =
                                       g[j - 1][Idx(coords[j][1], coords[j][2])],
                                  ![Idx(coords[j][1], coords[j][2])] = Background]
    IN g[k]

\* a shift by dx columns leaves the field alone or copies every descending
\* block into a cell that is empty then
C29ShiftsIntoEmpty(f, dx) ==
    LET coords == block_coords_with_predicate(f, {"Descending"})
        shifted == IF dx < 0 THEN move_left(f) ELSE move_right(f)
    IN \/ shifted = f
       \/ /\ shifted = C29Shifting(f, dx, Len(coords))
          /\ \A k \in 1 .. Len(coords) :
                /\ InField(coords[k][1] + dx, coords[k][2])
                /\ C29Shifting(f, dx, k - 1)[Idx(coords[k][1] + dx, coords[k][2])] = Background

\* the Disappearing blocks a countdown step removes
C29Removed(f) == {i \in DisappearingCells(f) : f[i].counter = 0}

\* the colours of the blocks in the cells S of the field f, counted
C29Colors(f, S) == [c \in Colors |-> Cardinality({i \in S : f[i].color = c})]

\* the step makes a new descending block: three blocks more, in empty cells
C29Spawn ==
    /\ BlockCells(field') = BlockCells(field) \cup C27NewCells
    /\ BlockCells(field) \cap C27NewCells = {}
    /\ \A i \in BlockCells(field) : field'[i] = field[i]

\* the step removes the Disappearing blocks whose counter is 0 and no other
C29Removal ==
    /\ C29Removed(field) # {}
    /\ BlockCells(field') = BlockCells(field) \ C29Removed(field)
    /\ \A i \in BlockCells(field') : field'[i].color = field[i].color

\* C29: blocks never overlap.  A gravity step, a descent step and a shift
\* move each block into a cell that is empty at that moment and empty the
\* cell it left; the colours of the blocks on the field, counted, change
\* only when a new descending block is made (three blocks more), when
\* Disappearing blocks with counter 0 are removed, and at a restart.
C29_NoOverlapNoLoss ==
    /\ [](/\ C29FallsIntoEmpty(field)
          /\ C29DescendsIntoEmpty(field)
          /\ C29ShiftsIntoEmpty(field, -1)
          /\ C29ShiftsIntoEmpty(field, 1))
    /\ [][CountColors(field') # CountColors(field)
            => \/ C29Spawn
               \/ C29Removal
               \/ field' = FieldNew]_vars

\* a block pulled by gravity has fallen to the floor after blocks were
\* removed
C29_Witness ==
    /\ score > 0
    /\ \E i \in GravityCells(field) : i \div FIELD_WIDTH_BLOCKS = FIELD_HEIGHT_BLOCKS - 1
    /\ \E i \in BlockCells(field) : field[i].state = "Stationary"

(***************************************************************************)
(* C30: a block falls one row per step                                     *)
(***************************************************************************)
\* the coordinates come in reverse row-major order: the lowest row first
C30BottomFirst(coords) ==
    \A k \in 1 .. (Len(coords) - 1) :
        Idx(coords[k][1], coords[k][2]) > Idx(coords[k + 1][1], coords[k + 1][2])

\* the step is a gravity step of the tick
C30GravityStep ==
    /\ game_state = "Play"
    /\ step_of_tick(field) = "gravity"
    /\ game_state' = game_state
    /\ field' # FieldNew

\* the step is a descent step of the tick
C30DescentStep ==
    /\ game_state = "Play"
    /\ step_of_tick(field) = "fall"
    /\ DescendingCells(field) # {}
    /\ block_fall_counter = block_fall_limit
    /\ block_fall_counter' # block_fall_counter

\* after the step every block of S is settled in its cell or lies, as it was,
\* in the cell one row below, and no other cell holds a block in that state
C30OneRow(S, st) ==
    /\ \A i \in S :
          \/ field'[i] = [field[i] EXCEPT !.state = "Stationary"]
          \/ /\ i + FIELD_WIDTH_BLOCKS < FIELD_BLOCK_COUNT
             /\ field'[i + FIELD_WIDTH_BLOCKS] = field[i]
             /\ field'[i] = Background \/ i - FIELD_WIDTH_BLOCKS \in S
    /\ {i \in Indices : field'[i].state = st} \subseteq {i + FIELD_WIDTH_BLOCKS : i \in S}
    /\ Cardinality(BlockCells(field')) = Cardinality(BlockCells(field))

\* C30: the blocks of a gravity step and of a descent step are taken in
\* reverse row-major order, the lowest row first, and no block moves down
\* more than one row in one such step: it is afterwards in the row it was in
\* or in the next row.
C30_OneRowPerStep ==
    /\ [](/\ C30BottomFirst(block_coords_with_predicate(field, {"Gravity"}))
          /\ C30BottomFirst(block_coords_with_predicate(field, {"Descending"})))
    /\ [][/\ C30GravityStep => C30OneRow(GravityCells(field), "Gravity")
          /\ C30DescentStep => C30OneRow(DescendingCells(field), "Descending")]_vars

\* three blocks that the drop key handed to gravity in the rows they were
\* made in have fallen by one row
C30_Witness ==
    \E x \in 0 .. (FIELD_WIDTH_BLOCKS - 1) :
        /\ GravityCells(field) = {Idx(x, 1), Idx(x, 2), Idx(x, 3)}
        /\ field[Idx(x, 0)] = Background

(***************************************************************************)
(* C31: the steps of a cascade follow each other tick by tick              *)
(***************************************************************************)
\* the step is a tick that counts down or lets the blocks fall
C31CascadeStep ==
    /\ game_state = "Play"
    /\ step_of_tick(field) \in {"disappearing", "gravity"}
    /\ game_state' = game_state
    /\ field' # field
    /\ field' # FieldNew

\* the step is the step of a key: a shift, a rotation or a drop of the
\* descending blocks, a restart or a pause
C31KeyStep ==
    \/ /\ field' \in {move_left(field), move_right(field), cycle_colors(field),
                       hand_to_gravity(field)}
       /\ UNCHANGED <<game_state, score, color_stats, block_fall_counter, block_fall_limit>>
    \/ field' = FieldNew /\ score' = 0 /\ UNCHANGED block_fall_counter
    \/ game_state' = "Pause"

\* the step is a tick that finds the fall counter at the fall limit with no
\* Disappearing block and no block pulled by gravity
C31DueStep ==
    /\ game_state = "Play"
    /\ step_of_tick(field) = "fall"
    /\ block_fall_counter = block_fall_limit
    /\ ~ C31KeyStep

\* the step handles the descending blocks or, with none, the sequences and
\* the new block: it does not wait
C31Checks ==
    IF DescendingCells(field) # {}
    THEN field' = C24Descended
    ELSE C24Invoked(field)

\* C31: a tick that counts down or lets blocks fall leaves the fall counter
\* at the fall limit, and a tick that finds the counter at the limit with no
\* Disappearing and no falling block handles the descending blocks or the
\* sequences at once; a tick that scores leaves Disappearing blocks and the
\* counter at the limit, so the next tick counts them down.
C31_CascadeRunsTickByTick ==
    [][/\ C31CascadeStep => /\ block_fall_counter' = block_fall_limit'
                            /\ block_fall_limit' = block_fall_limit
       /\ C31DueStep => C31Checks
       /\ score' > score => /\ step_of_tick(field') = "disappearing"
                            /\ block_fall_counter' = block_fall_limit'
                            /\ \A i \in DisappearingCells(field') \ DisappearingCells(field) :
                                  field'[i].counter = DISAPPEAR_BLINK_COUNT]_vars

\* blocks have been removed and have fallen, nothing is left to fall, and
\* the fall counter is at the limit
C31_Witness ==
    /\ game_state = "Play"
    /\ score > 0
    /\ step_of_tick(field) = "fall"
    /\ BlockCells(field) # {}
    /\ block_fall_counter = block_fall_limit

(***************************************************************************)
(* The cells each operation reads or writes: every call of block_by_coord, *)
(* block_by_coord_mut and swap_blocks, with the coordinates as the code    *)
(* computes them (x - 1 of column 0 is -1, y + 1 of the last row is        *)
(* FIELD_HEIGHT_BLOCKS).                                                   *)
(***************************************************************************)
\* block_at_coord_hit_bottom_or_stationary_block that looks below the last row
hit_bottom_cells_below_any_row(x, y) == {<<x, y + 1>>}

\* block_at_coord_hit_bottom_or_stationary_block(x, y): the cell below, unless
\* y is the last row (the || does not evaluate its right side then)
hit_bottom_cells(x, y) ==
    IF y = FIELD_HEIGHT_BLOCKS - 1 THEN {} ELSE {<<x, y + 1>>}

\* one iteration of handle_gravity_blocks / handle_descending_blocks
drop_or_settle_cells(f, x, y) ==
    {<<x, y>>} \cup hit_bottom_cells(x, y)
    \cup (IF block_at_coord_hit_bottom_or_stationary_block(f, x, y) THEN {} ELSE {<<x, y + 1>>})

handle_gravity_blocks_cells(f, coords) ==
    UNION {drop_or_settle_cells(handle_gravity_blocks(f, SubSeq(coords, 1, k - 1)),
                                coords[k][1], coords[k][2]) : k \in 1 .. Len(coords)}

handle_descending_blocks_cells(f, coords) ==
    UNION {drop_or_settle_cells(handle_descending_blocks(f, SubSeq(coords, 1, k - 1)),
                                coords[k][1], coords[k][2]) : k \in 1 .. Len(coords)}

\* handle_disappearing_blocks: the block and, when it is removed, the cells
\* above_y in 0..y of its column
handle_disappearing_blocks_cells(f, coords) ==
    UNION {LET before == handle_disappearing_blocks(f, SubSeq(coords, 1, k - 1))
               x == coords[k][1]
               y == coords[k][2]
           IN {<<x, y>>}
              \cup (IF is_disappearing(block_by_coord(before, x, y))
                       /\ block_by_coord(before, x, y).counter = 0
                    THEN {<<x, above_y>> : above_y \in 0 .. (y - 1)}
                    ELSE {})
           : k \in 1 .. Len(coords)}

\* make_new_descending_block: the rows 0 to 2 of the new block's column
make_new_descending_block_cells == {<<NEW_BLOCK_COLUMN, y>> : y \in 0 .. 2}

\* sequence_continues: the block and, past the four range tests, its neighbour
sequence_continues_cells(f, x, y, dx, dy) ==
    {<<x, y>>}
    \cup (IF as_block(block_by_coord(f, x, y)) /\ InField(x + dx, y + dy)
          THEN {<<x + dx, y + dy>>} ELSE {})

\* find_sequence: the walk, the cell behind the last block and, if that gave
\* no room, the cell before the first block, each past its range tests
find_sequence_cells(f, x, y, dx, dy) ==
    {<<x, y>>}
    \cup (IF ~ as_block(block_by_coord(f, x, y)) THEN {}
          ELSE LET coords == find_sequence_loop(f, << <<x, y>> >>, dx, dy)
                   more == <<coords[Len(coords)][1] + dx, coords[Len(coords)][2] + dy>>
                   less == <<coords[1][1] - dx, coords[1][2] - dy>>
                   at_end == InField(more[1], more[2])
                             /\ is_background(block_by_coord(f, more[1], more[2]))
               IN UNION {sequence_continues_cells(f, coords[k][1], coords[k][2], dx, dy) :
                            k \in 1 .. Len(coords)}
                  \cup (IF InField(more[1], more[2]) THEN {more} ELSE {})
                  \cup (IF ~ at_end /\ InField(less[1], less[2]) THEN {less} ELSE {}))

get_coordinates_of_sequences_cells(f) ==
    LET settled_blocks == block_coords_with_predicate(f, {"Stationary"})
    IN UNION {sequence_continues_cells(f, settled_blocks[k][1], settled_blocks[k][2],
                                       - d[1], - d[2])
              \cup (IF sequence_continues(f, settled_blocks[k][1], settled_blocks[k][2],
                                          - d[1], - d[2]) = <<>>
                    THEN find_sequence_cells(f, settled_blocks[k][1], settled_blocks[k][2],
                                             d[1], d[2])
                    ELSE {})
              : k \in 1 .. Len(settled_blocks), d \in {<<1, 0>>, <<1, 1>>, <<0, 1>>, <<-1, 1>>}}

\* the tick in Play: the cells of the branch it takes
tick_cells(f, counter, limit) ==
    IF step_of_tick(f) = "disappearing"
    THEN handle_disappearing_blocks_cells(f, block_coords_with_predicate(f, {"Disappearing"}))
    ELSE IF step_of_tick(f) = "gravity"
    THEN handle_gravity_blocks_cells(f, block_coords_with_predicate(f, {"Gravity"}))
    ELSE IF counter # limit THEN {}
    ELSE IF block_coords_with_predicate(f, {"Descending"}) # <<>>
    THEN handle_descending_blocks_cells(f, block_coords_with_predicate(f, {"Descending"}))
    ELSE get_coordinates_of_sequences_cells(f)
         \cup (IF handle_sequences(f, 0).found THEN {} ELSE make_new_descending_block_cells)

\* Left (dx = -1) and Right (dx = 1): the test of each descending block until
\* one fails (`x > 0 &&` and `x < FIELD_WIDTH_BLOCKS - 1 &&` come before the
\* read), then the copies
shift_cells(f, dx) ==
    LET coords == block_coords_with_predicate(f, {"Descending"})
        inside(k) == IF dx < 0 THEN coords[k][1] > 0
                     ELSE coords[k][1] < FIELD_WIDTH_BLOCKS - 1
        passes(k) == inside(k) /\ is_background(block_by_coord(f, coords[k][1] + dx, coords[k][2]))
        asked == {k \in 1 .. Len(coords) : \A j \in 1 .. (k - 1) : passes(j)}
        can_move == \A k \in 1 .. Len(coords) : passes(k)
    IN UNION {IF inside(k) THEN {<<coords[k][1] + dx, coords[k][2]>>} ELSE {} : k \in asked}
       \cup (IF can_move
             THEN UNION {{<<coords[k][1] + dx, coords[k][2]>>, <<coords[k][1], coords[k][2]>>} :
                            k \in 1 .. Len(coords)}
             ELSE {})

\* tower_height: from the last row upward to the first empty cell
tower_height_cells(f, x) ==
    {<<x, y>> : y \in {y \in 0 .. (FIELD_HEIGHT_BLOCKS - 1) :
                          y >= FIELD_HEIGHT_BLOCKS - 1 - tower_height(f, x)}}

\* drop_descending_blocks of ai.rs: the rows the while loop asks about, the
\* cells below them, and the swap
drop_descending_blocks_cells(f) ==
    LET desc_block_coords == block_coords_with_predicate(f, {"Descending"})
        g[k \in 0 .. Len(desc_block_coords)] ==
            IF k = 0 THEN [field |-> f, cells |-> {}]
            ELSE LET x == desc_block_coords[k][1]
                     y == desc_block_coords[k][2]
                     before == g[k - 1].field
                     new_y == landing_row(before, x, y)
                 IN [field |-> [swap_blocks(before, x, y, x, new_y)
                                   EXCEPT ![Idx(x, new_y)].state = "Stationary"],
                     cells |-> g[k - 1].cells \cup {<<x, y>>, <<x, new_y>>}
                               \cup UNION {hit_bottom_cells(x, z) : z \in y .. new_y}]
    IN g[Len(desc_block_coords)].cells

\* pick_best_move: for every rotation and column the test of the column (until
\* a cell is filled), the swaps, the drop and the rating
pick_best_move_cells(base_field) ==
    LET desc_blocks == block_coords_with_predicate(base_field, {"Descending"})
        n == Len(desc_blocks)
    IN UNION {LET rotated_field == ai_rotate_descending_blocks(base_field, rotate_count)
                  free(k) == is_background(block_by_coord(rotated_field, column, desc_blocks[k][2]))
                  asked == {k \in 1 .. n : \A j \in 1 .. (k - 1) : free(j)}
                  already_filled == \E k \in 1 .. n : ~ free(k)
                  moved[k \in 0 .. n] ==
                      IF k = 0 THEN rotated_field
                      ELSE swap_blocks(moved[k - 1], desc_blocks[k][1], desc_blocks[k][2],
                                       column, desc_blocks[k][2])
              IN {<<desc_blocks[k][1], desc_blocks[k][2]>> : k \in 1 .. n}
                 \cup {<<column, desc_blocks[k][2]>> : k \in asked}
                 \cup (IF already_filled THEN {}
                       ELSE drop_descending_blocks_cells(moved[n])
                            \cup get_coordinates_of_sequences_cells(drop_descending_blocks(moved[n]))
                            \cup UNION {tower_height_cells(drop_descending_blocks(moved[n]), x) :
                                           x \in 0 .. (FIELD_WIDTH_BLOCKS - 1)})
              : rotate_count \in 0 .. (n - 1), column \in 0 .. (FIELD_WIDTH_BLOCKS - 1)}

(***************************************************************************)
(* C32: no access beyond the walls, the top or the floor                   *)
(***************************************************************************)
\* the cells the next tick or key or a call of the advisor touches
C32Cells ==
    tick_cells(field, block_fall_counter, block_fall_limit)
    \cup shift_cells(field, -1) \cup shift_cells(field, 1)
    \cup {<<c[1], c[2]>> : c \in {coords_for_index(i) : i \in DescendingCells(field)}}
    \cup pick_best_move_cells(field)

\* C32: in every reachable state every cell that the tick, the keys, the
\* making of a new block, the search for sequences and the advisor read or
\* write has 0 <= x < FIELD_WIDTH_BLOCKS and 0 <= y < FIELD_HEIGHT_BLOCKS.
C32_AccessesInRange ==
    \A c \in C32Cells : InField(c[1], c[2])

\* descending blocks stand on the floor at the left wall: the descent asks
\* about the last row and the shift about column 0
C32_Witness ==
    /\ game_state = "Play"
    /\ block_fall_counter = block_fall_limit
    /\ Idx(0, FIELD_HEIGHT_BLOCKS - 1) \in DescendingCells(field)
    /\ <<0, FIELD_HEIGHT_BLOCKS - 1>> \in C32Cells
    /\ \E c \in C32Cells : c[1] = FIELD_WIDTH_BLOCKS - 1

(***************************************************************************)
(* C33: one transient state at a time                                      *)
(***************************************************************************)
\* the transient states that occur on the field f
C33Phases(f) == {f[i].state : i \in Indices} \cap {"Descending", "Gravity", "Disappearing"}

\* the step scores sequences, makes a new block or ends the game
C33ScoresOrSpawns ==
    \/ score' > score
    \/ DisappearingCells(field') \ DisappearingCells(field) # {}
    \/ Cardinality(BlockCells(field')) > Cardinality(BlockCells(field))
    \/ game_state = "Play" /\ game_state' = "Over"

\* C33: in every reachable state at most one of the states Descending, pulled
\* by gravity and Disappearing occurs on the field; a step that scores
\* sequences, makes a new block or ends the game starts from a field with
\* none of them, and every field the advisor rates has none of them.
C33_OneTransientStateAtATime ==
    /\ [](/\ Cardinality(C33Phases(field)) <= 1
          /\ \A rotate_count \in RotationCounts(field), column \in RatedColumns(field) :
                C33Phases(Placed(field, rotate_count, column)) = {})
    /\ [][C33ScoresOrSpawns => C33Phases(field) = {}]_vars

\* the drop key has handed a triplet over to gravity
C33_Witness ==
    /\ Cardinality(GravityCells(field)) = 3
    /\ C33Phases(field) = {"Gravity"}
    /\ game_state = "Play"

(***************************************************************************)
(* C34: settled blocks are supported                                       *)
(***************************************************************************)
\* the Stationary blocks of the field f
StationaryCells(f) == {i \in Indices : f[i].state = "Stationary"}

\* C34: in every reachable state every Stationary block is in the last row
\* or has a Stationary or Disappearing block right below it: never an empty
\* cell, a descending block or a block pulled by gravity.
C34_SettledBlocksAreSupported ==
    \A i \in StationaryCells(field) :
        \/ i \div FIELD_WIDTH_BLOCKS = FIELD_HEIGHT_BLOCKS - 1
        \/ field[i + FIELD_WIDTH_BLOCKS].state \in {"Stationary", "Disappearing"}

\* blocks above a removed sequence are falling while a settled block still
\* stands on another in a column beside them
C34_Witness ==
    /\ GravityCells(field) # {}
    /\ score > 0
    /\ \E i \in StationaryCells(field) :
          /\ i \div FIELD_WIDTH_BLOCKS < FIELD_HEIGHT_BLOCKS - 1
          /\ field[i + FIELD_WIDTH_BLOCKS].state = "Stationary"

(***************************************************************************)
(* C35: the fall counter and the fall limit                                *)
(***************************************************************************)
\* C35: in every reachable state the fall limit is between 1 and the
\* default limit and the fall counter between 0 and the fall limit, also
\* after a speed-up and after a restart; and while the tick keeps running, a
\* descending block in Play leads to a field without descending blocks (or
\* to a game that is no longer in Play).
C35_CounterWithinLimit ==
    /\ [](/\ 1 <= block_fall_limit
          /\ block_fall_limit <= DEFAULT_BLOCK_FALL_LIMIT
          /\ 0 <= block_fall_counter
          /\ block_fall_counter <= block_fall_limit)
    /\ ((game_state = "Play" /\ DescendingCells(field) # {})
          ~> (DescendingCells(field) = {} \/ game_state # "Play"))

\* after a restart a new block has been made and has landed
C35_Witness ==
    /\ game_state = "Play"
    /\ score = 0
    /\ StatsTotal(color_stats) = 3
    /\ Cardinality(StationaryCells(field)) = 3
    /\ block_fall_limit = DEFAULT_BLOCK_FALL_LIMIT

(***************************************************************************)
(* C36: the blocks of one scoring event disappear together                 *)
(***************************************************************************)
\* the step marks blocks as Disappearing or raises the score
C36ScoringEvent ==
    \/ DisappearingCells(field') \ DisappearingCells(field) # {}
    \/ score' > score

\* the step turns a Disappearing cell into an empty one
C36Removal == \E i \in DisappearingCells(field) : field'[i] = Background

\* C36: all Disappearing cells of a reachable field carry the same counter,
\* between 0 and the blink count; a step that removes one Disappearing cell
\* removes all of them; and a scoring event starts from a field without a
\* Disappearing cell and marks all its cells with the blink count.
C36_CohortDisappearsTogether ==
    /\ [](\A i, j \in DisappearingCells(field) :
            /\ field[i].counter = field[j].counter
            /\ field[i].counter \in 0 .. DISAPPEAR_BLINK_COUNT)
    /\ [][/\ C36Removal => (\A i \in DisappearingCells(field) : field'[i] = Background)
          /\ C36ScoringEvent =>
                /\ DisappearingCells(field) = {}
                /\ \A i \in DisappearingCells(field') :
                       field'[i].counter = DISAPPEAR_BLINK_COUNT]_vars

\* two runs marked by one scoring event have counted down together
C36_Witness ==
    /\ game_state = "Play"
    /\ \E i, j \in DisappearingCells(field) :
          /\ field[i].sequence # field[j].sequence
          /\ field[i].counter = 0
          /\ field[j].counter = 0

(***************************************************************************)
(* C37: the driver's movement code and the methods of Field                *)
(***************************************************************************)
\* C37: on every reachable field the gravity step of the driver
\* (handle_gravity_blocks, copy then clear) gives the field of
\* Field::descend_gravity_blocks (swap), and the shifts of the Left and
\* Right keys give the fields of Field::move_descending_blocks_left and
\* Field::move_descending_blocks_right.
C37_CopyThenClearEqualsSwap ==
    /\ handle_gravity_blocks(field, block_coords_with_predicate(field, {"Gravity"}))
           = descend_gravity_blocks(field).field
    /\ move_left(field) = move_descending_blocks_left(field)
    /\ move_right(field) = move_descending_blocks_right(field)

\* a triplet shifted out of its column and dropped is falling over a settled
\* block and the next gravity step moves it
C37_Witness ==
    /\ game_state = "Play"
    /\ StationaryCells(field) # {}
    /\ GravityCells(field) # {}
    /\ \A i \in GravityCells(field) : i % FIELD_WIDTH_BLOCKS # NEW_BLOCK_COLUMN
    /\ descend_gravity_blocks(field).block_moved

(***************************************************************************)
(* C38: the advisor's drop and the gravity steps of Field                  *)
(***************************************************************************)
\* pick_best_move before the drop: the descending blocks of f rotated
\* rotate_count times and swapped into the column
Columned(f, rotate_count, column) ==
    LET desc_blocks == block_coords_with_predicate(f, {"Descending"})
        g[k \in 0 .. Len(desc_blocks)] ==
            IF k = 0 THEN ai_rotate_descending_blocks(f, rotate_count)
            ELSE Only({swap_blocks(prev, desc_blocks[k][1], desc_blocks[k][2],
                                   column, desc_blocks[k][2]) : prev \in {g[k - 1]}})
    IN g[Len(desc_blocks)]

\* the fields with the triplet in a legal column: in the column it is in and
\* in every column the advisor rates, in every rotation
C38Fields ==
    {ai_rotate_descending_blocks(field, rotate_count) : rotate_count \in RotationCounts(field)}
    \cup {Columned(field, rotate_count, column) :
             rotate_count \in RotationCounts(field), column \in RatedColumns(field)}

\* the field after n calls of descend_gravity_blocks and the value of the last
C38Calls(f, n) ==
    LET g[k \in 0 .. n] ==
            IF k = 0 THEN [field |-> f, block_moved |-> TRUE]
            ELSE Only({descend_gravity_blocks(prev.field) : prev \in {g[k - 1]}})
    IN g[n]

\* the triplet of f moved down as a whole onto the top of its column: by the
\* number of empty cells below it
C38Stacked(f) ==
    LET d == Cardinality({i \in Indices :
                 /\ f[i].state = "Background"
                 /\ \E j \in DescendingCells(f) :
                       i % FIELD_WIDTH_BLOCKS = j % FIELD_WIDTH_BLOCKS /\ i > j})
    IN [i \in Indices |->
          IF i - d * FIELD_WIDTH_BLOCKS \in DescendingCells(f)
          THEN Block(f[i - d * FIELD_WIDTH_BLOCKS].color, "Stationary")
          ELSE IF i \in DescendingCells(f) THEN Background ELSE f[i]]

\* C38: for every reachable field with a descending triplet, in the column
\* it is in and in every column the advisor rates, drop_descending_blocks
\* gives the field of hand_descending_blocks_to_gravity followed by
\* immediately_drop_gravity_blocks; the loop of the latter ends after at
\* most as many calls as the field has rows, plus one; and the result holds
\* no Descending and no Gravity block and has the three blocks, in their
\* order, as Stationary blocks on top of what the column held.
C38_OneShotDropEqualsRepeatedGravity ==
    \A f \in C38Fields :
        DescendingCells(f) # {} =>
            \A released \in {hand_descending_blocks_to_gravity(f)} :
            \A dropped \in {drop_descending_blocks(f)} :
                /\ dropped = immediately_drop_gravity_blocks(released)
                /\ \E n \in 1 .. (FIELD_HEIGHT_BLOCKS + 1) :
                      /\ ~ C38Calls(released, n).block_moved
                      /\ \A k \in 1 .. (n - 1) : C38Calls(released, k).block_moved
                      /\ C38Calls(released, n).field = dropped
                /\ DescendingCells(dropped) = {}
                /\ GravityCells(dropped) = {}
                /\ dropped = C38Stacked(f)

\* a triplet of two colours, shifted out of the column it was made in, beside
\* a settled block, with a free column in which the first gravity step moves it
C38_Witness ==
    /\ game_state = "Play"
    /\ Cardinality(DescendingCells(field)) = 3
    /\ \A i \in DescendingCells(field) : XOf(i) # NEW_BLOCK_COLUMN
    /\ \E i, j \in DescendingCells(field) : field[i].color # field[j].color
    /\ StationaryCells(field) # {}
    /\ \E f \in C38Fields :
          /\ f # field
          /\ C38Calls(hand_descending_blocks_to_gravity(f), 1).block_moved

(***************************************************************************)
(* C39: Pause and Over                                                     *)
(***************************************************************************)
\* field, score, statistics, fall limit and fall counter stay as they are
C39Frozen == UNCHANGED <<field, score, color_stats, block_fall_limit, block_fall_counter>>

\* the step is a restart: empty field, zero score and statistics, default
\* limit, Play
C39Restart ==
    /\ field' = FieldNew
    /\ score' = 0
    /\ color_stats' = ColorStatsNew
    /\ block_fall_limit' = DEFAULT_BLOCK_FALL_LIMIT
    /\ game_state' = "Play"

\* the step is the fall step that finds no room for a new block
C39BlockedSpawn ==
    /\ step_of_tick(field) = "fall"
    /\ block_fall_counter = block_fall_limit
    /\ ~ has_space_for_new_block(field)
    /\ UNCHANGED <<field, score, color_stats, block_fall_limit>>

\* C39: a step from Pause or Over that is not a restart leaves field, score,
\* statistics, fall limit and fall counter unchanged, so ticks and the
\* shift, rotate and drop keys do nothing there; the pause key turns Play
\* into Pause and Pause into Play, keeps Over and changes nothing else; and
\* the game state changes only from Play to Pause and back by the pause key,
\* from Play to Over by a blocked spawn, and to Play by a restart.
C39_PauseAndOverFreeze ==
    [][/\ (game_state \in {"Pause", "Over"} /\ ~ C39Restart) => C39Frozen
       /\ (game_state \in {"Pause", "Over"} /\ (Tick \/ KeyLeft \/ KeyRight \/ KeyUp \/ KeyDown))
             => UNCHANGED vars
       /\ KeyF3 => /\ game_state = "Play" => game_state' = "Pause"
                   /\ game_state = "Pause" => game_state' = "Play"
                   /\ game_state = "Over" => game_state' = "Over"
                   /\ C39Frozen
       /\ game_state' # game_state
             => \/ game_state = "Play" /\ game_state' = "Pause" /\ C39Frozen
                \/ game_state = "Pause" /\ game_state' = "Play" /\ C39Frozen
                \/ game_state = "Play" /\ game_state' = "Over" /\ C39BlockedSpawn
                \/ game_state' = "Play" /\ C39Restart]_vars

\* the game is paused with a descending block that has room on both sides
C39_Witness ==
    /\ game_state = "Pause"
    /\ DescendingCells(field) # {}
    /\ move_left(field) # field
    /\ move_right(field) # field
    /\ cycle_colors(field) # field

(***************************************************************************)
(* C40: rotation as a cyclic permutation                                   *)
(***************************************************************************)
\* how many Descending blocks of f have the colour c
C40Descending(f, c) == Cardinality({i \in DescendingCells(f) : f[i].color = c})

\* g differs from f in the colours of Descending blocks only, and holds each
\* colour on as many Descending blocks as f
C40Permuted(f, g) ==
    /\ \A i \in Indices :
          /\ g[i].state = f[i].state
          /\ g[i].counter = f[i].counter
          /\ g[i].sequence = f[i].sequence
          /\ f[i].state # "Descending" => g[i] = f[i]
    /\ \A c \in Colors : C40Descending(g, c) = C40Descending(f, c)

\* the three rotations of the program: the rotate key, the method of Field
\* and the advisor's rotation by one
C40Rotations(f) ==
    <<cycle_colors(f), rotate_descending_blocks(f), ai_rotate_descending_blocks(f, 1)>>

\* C40: on every reachable field each of the three rotations changes only
\* colours of Descending blocks and keeps the number of Descending blocks of
\* each colour; applied three times to a field with a triplet it gives the
\* field back; on a field without Descending blocks it changes nothing; and
\* a press of the rotate key in Play is such a step.
C40_RotationIsCyclic ==
    /\ [](\A r \in 1 .. 3 :
            /\ C40Permuted(field, C40Rotations(field)[r])
            /\ Cardinality(DescendingCells(field)) = 3
                  => C40Rotations(C40Rotations(C40Rotations(field)[r])[r])[r] = field
            /\ DescendingCells(field) = {} => C40Rotations(field)[r] = field)
    /\ [][(KeyUp /\ game_state = "Play")
            => /\ C40Permuted(field, field')
               /\ field' = cycle_colors(field)
               /\ UNCHANGED <<game_state, score, color_stats, block_fall_counter,
                              block_fall_limit>>]_vars

\* a triplet that has descended from the spawn cells, rotated so that its top
\* colour is the second one, and that the next rotation changes again
C40_Witness ==
    /\ game_state = "Play"
    /\ Cardinality(DescendingCells(field)) = 3
    /\ \A i \in DescendingCells(field) : YOf(i) > 0
    /\ \E i \in DescendingCells(field) :
          /\ field[i].color = 1
          /\ \A j \in DescendingCells(field) : YOf(i) <= YOf(j)
    /\ cycle_colors(field) # field

====
